---- MODULE Spec2Model ----
(***************************************************************************)
(* A model of the assistant bot: the chat-command handlers of              *)
(* telegram_handler.py over the Redis session store of redis_client.py,    *)
(* and the retrieval pipeline of gcp_service.py (GcpService).              *)
(*                                                                         *)
(* Conventions.  Python None and an absent dict key are the empty tuple    *)
(* <<>>, a present value v is <<v>>.  A str is a tuple of one-character    *)
(* strings where the code looks inside it (names, links, filters) and a    *)
(* tuple of tokens where the code only passes it on (model output).        *)
(* Handlers are dispatched one at a time (Application is built without     *)
(* concurrent_updates).  Every `await` is a point where the event loop may *)
(* run a task made by asyncio.create_task; such a task also runs between   *)
(* two handlers.  A handler is therefore one action per stretch of code    *)
(* between the awaits that separate its session store calls.               *)
(*                                                                         *)
(* Spec is the bot's handlers and summary tasks over the session store.    *)
(* SpecKB is GcpService alone: its construction, then one                  *)
(* query_knowledge_base call after another, each call one action per       *)
(* retrieval, against every answer the embedding model, the search         *)
(* backend and the generation model can give.  SpecFn is GcpService's two  *)
(* lookups, _match_filenames_by_vector and _search_segments, each called   *)
(* on its own over a catalog of five files.  SpecLive is Spec with the     *)
(* event loop's fairness towards the summary task.  SpecStore is the       *)
(* commands that open, fill and close a session, with the Redis server     *)
(* failing and recovering between their steps.                             *)
(***************************************************************************)
EXTENDS Integers, Sequences, FiniteSets, TLC

VARIABLES
    redis,      \* redis_client: chat id -> stored session state, or None
    redis_up,   \* whether the Redis server answers
    h,          \* the handler in flight (or the last one, once done)
    tasks,      \* the _summarize_task tasks in flight
    finished,   \* the _summarize_task that ran to its end in the last step
    product_files,  \* GcpService.product_files: the catalog
    file_index,     \* GcpService.file_index: the catalog entries with a vector
    kb,         \* the query_knowledge_base call in progress
    fn          \* the last call of one of GcpService's two lookups on its own

vars == <<redis, redis_up, h, tasks, finished, product_files, file_index, kb, fn>>

\* the state of the GcpService object
gcp == <<product_files, file_index, kb, fn>>

----------------------------------------------------------------------------
(* Bounds of the model *)

\* most entries a session history holds before plain messages stop arriving
MaxHistory == 3
\* most _summarize_task tasks in flight at once
MaxTasks == 1

----------------------------------------------------------------------------
(* Values *)

None == <<>>
Some(v) == <<v>>

\* Conversation ids.  Every handler uses the key str(chat_id) of its own update
\* only, so one conversation is followed.
ChatIds == {1}

\* The customer database in Notion: page id and title.
Pages ==
    << [id |-> "p1", title |-> <<"a", "n">>],
       [id |-> "p2", title |-> <<"b", "o">>],
       [id |-> "p3", title |-> <<"b", "o", "b">>] >>

\* Customer names a user types after /ask: one page, two pages, one page, none.
CustomerNames == { <<"a", "n">>, <<"b", "o">>, <<"b", "o", "b">>, <<"z">> }

Questions == { <<"q">> }
MessageTexts == { <<"m">> }

\* /ask arguments: none, a name, a name and a question
AskArgs ==
    {<<>>} \cup { <<n>> : n \in CustomerNames }
           \cup { <<n, q>> : n \in CustomerNames, q \in Questions }

\* arguments of /query, /products and /search_db: none, or a question
QuestionArgs == {<<>>} \cup { <<q>> : q \in Questions }

\* outcome of a remote call
Outcomes == {"ok", "error"}

\* how the try block of save_command ends (lines 238-246): append and reply
\* made, append raised, or append made and the reply after it raised
SaveOutcomes == {"ok", "error", "unconfirmed"}

\* how GcpService.query_knowledge_base ends, seen from a handler: the model's
\* answer, the fixed no-relevant-content message, or an exception
KbOutcomes == {"answer", "no_content", "raise"}

----------------------------------------------------------------------------
(* Strings *)

\* Python `sub in s` on strings
IsSubstring(sub, s) ==
    \E i \in 0..(Len(s) - Len(sub)) :
        \A j \in 1..Len(sub) : s[i + j] = sub[j]

\* [x[field] for x in s]
Column(s, field) == [i \in 1..Len(s) |-> s[i][field]]

----------------------------------------------------------------------------
(* Python str and list operations used by gcp_service.py *)

Min(a, b) == IF a <= b THEN a ELSE b
Max(a, b) == IF a >= b THEN a ELSE b

\* s[:n]
Take(s, n) == SubSeq(s, 1, Min(n, Len(s)))

UpperCase == {"A", "B", "C", "D"}

\* str.lower(), one character
LowerChar(ch) ==
    CASE ch = "A" -> "a" [] ch = "B" -> "b" [] ch = "C" -> "c"
      [] ch = "D" -> "d" [] OTHER -> ch

\* str.lower()
Lower(s) == [i \in 1..Len(s) |-> LowerChar(s[i])]

\* set(s)
CharSet(s) == { s[i] : i \in 1..Len(s) }

\* s.replace(ch, "") for every ch of `chars`
RemoveChars(s, chars) == SelectSeq(s, LAMBDA ch : ch \notin chars)

Whitespace == {" ", "\n"}

\* str.strip()
RECURSIVE LStrip(_)
LStrip(s) ==
    IF s # <<>> /\ Head(s) \in Whitespace THEN LStrip(Tail(s)) ELSE s

RECURSIVE RStrip(_)
RStrip(s) ==
    IF s # <<>> /\ s[Len(s)] \in Whitespace
    THEN RStrip(SubSeq(s, 1, Len(s) - 1)) ELSE s

Strip(s) == RStrip(LStrip(s))

Separators == {",", "\n"}

\* the elements of a set of numbers in increasing order
SortedSeq(S) ==
    [k \in 1..Cardinality(S) |->
        CHOOSE i \in S : Cardinality({j \in S : j < i}) = k - 1]

\* re.split(r'[,\n]+', s): the pieces between maximal runs of separators,
\* with an empty piece before a leading run and after a trailing one
ReSplit(s) ==
    LET sep(i) == s[i] \in Separators
        starts == { i \in 1..Len(s) : ~sep(i) /\ (i = 1 \/ sep(i - 1)) }
        ends == { i \in 1..Len(s) : ~sep(i) /\ (i = Len(s) \/ sep(i + 1)) }
        first == SortedSeq(starts)
        last == SortedSeq(ends)
        pieces == [k \in 1..Len(first) |-> SubSeq(s, first[k], last[k])]
    IN  IF s = <<>> THEN << <<>> >>
        ELSE (IF sep(1) THEN << <<>> >> ELSE <<>>)
             \o pieces
             \o (IF sep(Len(s)) THEN << <<>> >> ELSE <<>>)

\* the position of the last `ch` in s, 0 when there is none (str.rfind + 1)
LastIndexOf(s, ch) ==
    LET hits == { i \in 1..Len(s) : s[i] = ch }
    IN  IF hits = {} THEN 0 ELSE CHOOSE i \in hits : \A j \in hits : j <= i

\* the position of the first `ch` in s, 0 when there is none
FirstIndexOf(s, ch) ==
    LET hits == { i \in 1..Len(s) : s[i] = ch }
    IN  IF hits = {} THEN 0 ELSE CHOOSE i \in hits : \A j \in hits : i <= j

\* os.path.basename
Basename(path) == SubSeq(path, LastIndexOf(path, "/") + 1, Len(path))

\* os.path.splitext(filename)[0]: cut at the last dot, unless only dots
\* come before it
SplitextRoot(filename) ==
    LET dot == LastIndexOf(filename, ".")
    IN  IF dot # 0 /\ \E i \in 1..(dot - 1) : filename[i] # "."
        THEN SubSeq(filename, 1, dot - 1)
        ELSE filename

\* s.startswith(prefix)
StartsWith(s, prefix) ==
    Len(s) >= Len(prefix) /\ SubSeq(s, 1, Len(prefix)) = prefix

\* an insertion that puts an element before the elements of equal score
RECURSIVE InsertBeforeTies(_, _)
InsertBeforeTies(sorted, x) ==
    IF sorted = <<>> THEN <<x>>
    ELSE IF Head(sorted).score > x.score
    THEN <<Head(sorted)>> \o InsertBeforeTies(Tail(sorted), x)
    ELSE <<x>> \o sorted

\* list.sort(key=score, reverse=True): stable, descending by .score
RECURSIVE InsertByScore(_, _)
InsertByScore(sorted, x) ==
    IF sorted = <<>> THEN <<x>>
    ELSE IF Head(sorted).score >= x.score
    THEN <<Head(sorted)>> \o InsertByScore(Tail(sorted), x)
    ELSE <<x>> \o sorted

RECURSIVE SortByScoreDesc(_)
SortByScoreDesc(s) ==
    IF s = <<>> THEN <<>>
    ELSE InsertByScore(SortByScoreDesc(SubSeq(s, 1, Len(s) - 1)), s[Len(s)])

\* [x for xs in s for x in xs]
RECURSIVE Flatten(_)
Flatten(s) == IF s = <<>> THEN <<>> ELSE Head(s) \o Flatten(Tail(s))

----------------------------------------------------------------------------
(* redis_client.py *)

get_conv_state(c) == IF redis_up THEN redis[c] ELSE None

set_conv_state(r, c, state) ==
    IF redis_up THEN [r EXCEPT ![c] = Some(state)] ELSE r

delete_conv_state(r, c) ==
    IF redis_up THEN [r EXCEPT ![c] = None] ELSE r

----------------------------------------------------------------------------
(* notion_service.py *)

\* find_customer_pages_by_title (lines 102-115): the pages whose title contains
\* the name.  First the lookup with `name == title` in place of
\* `name in title`.
find_customer_pages_exact(name) ==
    IF name = <<>> THEN <<>>
    ELSE SelectSeq(Pages, LAMBDA p : name = p.title)

find_customer_pages_by_title(name) ==
    IF name = <<>> THEN <<>>
    ELSE SelectSeq(Pages, LAMBDA p : IsSubstring(name, p.title))

get_page_portrait_section(page_id) == <<"portrait", page_id>>

----------------------------------------------------------------------------
(* generate.py.  Every function here catches the failure of its remote call *)
(* and returns the error text as its result, so its caller receives a str   *)
(* either way.  Only summarize_conversation's two results are told apart;   *)
(* for the others the model keeps one token for "the text the call          *)
(* returned", since no handler branches on it.                              *)

answer_question == <<"answer">>

summarize_conversation(title, outcome) ==
    IF outcome = "ok" THEN <<"summary">> \o title ELSE <<"summary_error">>

\* the revision keeps what the draft was about
refine_summary(current_summary) == <<"refined">> \o Tail(current_summary)

summarize_segment == <<"rolling_summary">>

answer_with_grounding == <<"grounded">>

----------------------------------------------------------------------------
(* The world of GcpService: the bucket, the embedding model, the search     *)
(* backend.  Similarity and segment scores are in hundredths.               *)

\* the objects listed in the bucket
BucketBlobs ==
    << <<"d", "/", "a", "b", "-", "x", ".", "p">>,
       <<"c", "d", ".", "p">> >>

\* a bucket with more objects than a vector match returns
WideBucket ==
    BucketBlobs \o << <<"e", "f", ".", "p">>, <<"g", "h">>, <<"i", "-", "j", ".", "p">> >>

\* cosine similarities the embedding model can give a (text, file name) pair:
\* below threshold1, at threshold1, at the high-confidence mark, above it
ScoreLevels == {50, 55, 70, 90}

\* keywords a product filter is made of
KeywordPool == { <<"A", "b">>, <<"a", "c">>, <<"a", "b", "c">> }

UserQuestions == { <<"question">> }

\* one extractive segment as the backend returns it
BackendSegment(content, page, score, conf) ==
    [content |-> content, pageNumber |-> page, score |-> score,
     confidenceScore |-> conf]

\* a document whose segments carry the scores of `scores`, in that order
ScoredSegments(content, scores) ==
    [i \in 1..Len(scores) |->
        BackendSegment(content, Some(i), Some(scores[i]), None)]

\* The documents the backend can return: derived_struct_data of each.
DocAb ==
    [ link |-> Some(<<"g", "s", ":", "/", "/", "b", "/", "d", "/", "a", "b", "-", "x", ".", "p">>),
      title |-> Some(<<"T">>),
      extractive_segments |->
          ScoredSegments(<<"text_ab">>, <<90, 60, 90, 80>>) ]

DocCd ==
    [ link |-> Some(<<"g", "s", ":", "/", "/", "b", "/", "c", "d", ".", "p">>),
      title |-> None,
      extractive_segments |->
          ScoredSegments(<<"text_cd">>, <<60, 95, 90, 50>>) ]

\* a file whose name differs from the catalog's "ab-x" in case only
DocCase ==
    [ link |-> Some(<<"g", "s", ":", "/", "/", "b", "/", "A", "b", "-", "x", ".", "p">>),
      title |-> None,
      extractive_segments |->
          << BackendSegment(<<"text_case">>, Some(1), None, Some(30)),
             BackendSegment(<<>>, Some(2), Some(99), None) >> ]

\* a document with no storage link and no title
DocNoLink ==
    [ link |-> None,
      title |-> None,
      extractive_segments |->
          << BackendSegment(<<"text_nolink">>, None, Some(0), None),
             BackendSegment(<<"text_nolink">>, Some(2), None, None) >> ]

DocUniverse == {DocAb, DocCd, DocCase, DocNoLink}

\* most documents in one page of results the model lets the backend return
MaxDocs == 2

\* the sequences of at most n distinct elements of S
DistinctSeqs(S, n) ==
    UNION { { q \in [1..k -> S] : \A i, j \in 1..k : i # j => q[i] # q[j] } :
            k \in 0..n }

BackendSummaries == { None, Some(<<>>), Some(<<"backend_summary">>) }

\* what self.client.search gives: a page of results and a summary, or an error
SearchResponses ==
    { [failed |-> FALSE, results |-> r, summary |-> sm] :
          r \in DistinctSeqs(DocUniverse, MaxDocs), sm \in BackendSummaries }
    \cup { [failed |-> TRUE, results |-> <<>>, summary |-> None] }

----------------------------------------------------------------------------
(* gcp_service.py: construction and the two lookups *)

\* _fetch_all_filenames: one catalog entry per blob listed, [] when the
\* listing fails (listing = None)
fetch_all_filenames(listing) ==
    IF listing = None THEN <<>>
    ELSE [i \in 1..Len(listing[1]) |->
             [blob_name |-> listing[1][i],
              clean_name |-> SplitextRoot(Basename(listing[1][i]))]]

\* _build_filename_index: the entries whose embedding call gave a vector;
\* embedded[i] tells whether the call for entry i did
build_filename_index(files, embedded) ==
    LET keep == SelectSeq([i \in 1..Len(files) |-> i], LAMBDA i : embedded[i])
    IN  [j \in 1..Len(keep) |-> [info |-> files[keep[j]], position |-> keep[j]]]

\* default of _match_filenames_by_vector's threshold1
threshold1 == 55

\* the high-confidence mark of _match_filenames_by_vector and of the
\* coverage validation
HighConfidence == 70

\* _match_filenames_by_vector without lines 123-127: every match above
\* threshold1 competes for the top_k places
match_filenames_mixed(keyword, top_k, similarity, embedding) ==
    IF keyword = <<>> \/ file_index = <<>> THEN <<>>
    ELSE IF embedding = "error" THEN <<>>
    ELSE LET scored == [i \in 1..Len(file_index) |->
                           [score |-> similarity[file_index[i].position],
                            info |-> file_index[i].info]]
             matches == SelectSeq(scored, LAMBDA m : m.score >= threshold1)
         IN  Take(SortByScoreDesc(matches), top_k)

\* _match_filenames_by_vector.  similarity[p] is the cosine similarity of the
\* keyword's vector and the vector of catalog entry p; embedding is the
\* outcome of the keyword's own embedding call.
match_filenames_by_vector(keyword, top_k, similarity, embedding) ==
    IF keyword = <<>> \/ file_index = <<>> THEN <<>>
    ELSE IF embedding = "error" THEN <<>>
    ELSE LET scored == [i \in 1..Len(file_index) |->
                           [score |-> similarity[file_index[i].position],
                            info |-> file_index[i].info]]
             matches == SelectSeq(scored, LAMBDA m : m.score >= threshold1)
             high_confidence_matches ==
                 SelectSeq(matches, LAMBDA m : m.score >= HighConfidence)
             final_matches ==
                 IF high_confidence_matches # <<>>
                 THEN high_confidence_matches ELSE matches
         IN  Take(SortByScoreDesc(final_matches), top_k)

\* Python truthiness of an optional string and of an optional number
TruthyText(x) == x # None /\ x[1] # <<>>
TruthyNumber(x) == x # None /\ x[1] # 0

GsScheme == <<"g", "s", ":", "/", "/">>

\* the file name title parsed from a document's link (lines 199-205)
FilenameTitle(link) ==
    IF ~TruthyText(link) THEN None
    ELSE LET path_part ==
                 IF StartsWith(link[1], GsScheme)
                 THEN SubSeq(link[1], FirstIndexOf(link[1], "/") + 1, Len(link[1]))
                 ELSE link[1]
         IN  Some(SplitextRoot(Basename(path_part)))

\* the display title of a document (line 207)
DocTitle(raw_title, filename_title) ==
    IF TruthyText(raw_title) /\ TruthyText(filename_title)
    THEN filename_title[1] \o <<"(">> \o raw_title[1] \o <<")">>
    ELSE IF TruthyText(raw_title) THEN raw_title[1]
    ELSE IF TruthyText(filename_title) THEN filename_title[1]
    ELSE <<"untitled">>

\* score of one segment in hundredths (line 219); 1.0 is 100
SegmentScore(seg) ==
    IF TruthyNumber(seg.score) THEN seg.score[1]
    ELSE IF TruthyNumber(seg.confidenceScore) THEN seg.confidenceScore[1]
    ELSE 100

\* lines 194-220 with the allow-list test made without regard to case
DocSegmentsAnyCase(doc, allowed_filenames) ==
    LET filename_title == FilenameTitle(doc.link)
        title == DocTitle(doc.title, filename_title)
        skipped ==
            /\ allowed_filenames # None
            /\ allowed_filenames[1] # <<>>
            /\ \/ filename_title = None
               \/ \A i \in 1..Len(allowed_filenames[1]) :
                      Lower(allowed_filenames[1][i]) # Lower(filename_title[1])
        with_text == SelectSeq(doc.extractive_segments,
                               LAMBDA seg : seg.content # <<>>)
    IN  IF skipped THEN <<>>
        ELSE [i \in 1..Len(with_text) |->
                 [text |-> with_text[i].content,
                  source_title |-> title,
                  page |-> with_text[i].pageNumber,
                  score |-> SegmentScore(with_text[i])]]

\* the segments one result document contributes (lines 194-220)
DocSegments(doc, allowed_filenames) ==
    LET filename_title == FilenameTitle(doc.link)
        title == DocTitle(doc.title, filename_title)
        skipped ==
            /\ allowed_filenames # None
            /\ allowed_filenames[1] # <<>>
            /\ \/ filename_title = None
               \/ \A i \in 1..Len(allowed_filenames[1]) :
                      allowed_filenames[1][i] # filename_title[1]
        with_text == SelectSeq(doc.extractive_segments,
                               LAMBDA seg : seg.content # <<>>)
    IN  IF skipped THEN <<>>
        ELSE [i \in 1..Len(with_text) |->
                 [text |-> with_text[i].content,
                  source_title |-> title,
                  page |-> with_text[i].pageNumber,
                  score |-> SegmentScore(with_text[i])]]

\* _search_segments without the except clause: the backend's error reaches
\* the caller
search_segments_uncaught(response, top_segments, allowed_filenames) ==
    LET segments_info ==
            Flatten([i \in 1..Len(response.results) |->
                        DocSegments(response.results[i], allowed_filenames)])
    IN  [segments |-> Take(SortByScoreDesc(segments_info), top_segments),
         summary |-> response.summary,
         raised |-> response.failed]

\* _search_segments without the cut of line 224: every segment found is
\* returned, whatever top_segments is
search_segments_unlimited(response, top_segments, allowed_filenames) ==
    IF response.failed
    THEN [segments |-> <<>>, summary |-> None, raised |-> FALSE]
    ELSE LET segments_info ==
                 Flatten([i \in 1..Len(response.results) |->
                             DocSegments(response.results[i], allowed_filenames)])
         IN  [segments |-> SortByScoreDesc(segments_info),
              summary |-> response.summary,
              raised |-> FALSE]

\* _search_segments: what it returns for the backend's response
search_segments(response, top_segments, allowed_filenames) ==
    IF response.failed
    THEN [segments |-> <<>>, summary |-> None, raised |-> FALSE]
    ELSE LET segments_info ==
                 Flatten([i \in 1..Len(response.results) |->
                             DocSegments(response.results[i], allowed_filenames)])
         IN  [segments |-> Take(SortByScoreDesc(segments_info), top_segments),
              summary |-> response.summary,
              raised |-> FALSE]

----------------------------------------------------------------------------
(* gcp_service.py: query_knowledge_base *)

TOTAL_SEGMENT_TARGET == 12

\* longest list of distinct-position keywords a sampled filter is built from
MaxKeywords == 2

\* a filter of one keyword more than there are segments to share out
LongFilterLength == TOTAL_SEGMENT_TARGET + 1

KeywordLists ==
    UNION { [1..n -> KeywordPool] : n \in 1..MaxKeywords }
    \cup { [i \in 1..LongFilterLength |-> <<"A", "b">>] }

\* the filter string a caller passes for a keyword list: quoted names
\* separated by commas, newlines and blanks
RenderFilter(ks) ==
    Flatten([i \in 1..Len(ks) |->
                IF i = 1 THEN <<"\"">> \o ks[1] \o <<"\"">>
                ELSE <<",", "\n", " ", "'">> \o ks[i] \o <<"'">>])

ProductFilters ==
    { None, Some(<<>>), Some(<<",", " ">>) }
    \cup { Some(RenderFilter(ks)) : ks \in KeywordLists }

\* search_query and conversation_history as the callers pass them
RequestContexts ==
    { [search_query |-> None, conversation_history |-> None],
      [search_query |-> Some(<<"search_query">>),
       conversation_history |-> Some(<<"history">>)] }

NoContentMessage == <<"no_content">>

\* lines 234-235
ParseKeywords(product_filter) ==
    LET clean_filter == RemoveChars(product_filter, {"\"", "'"})
        pieces == ReSplit(clean_filter)
        stripped == [i \in 1..Len(pieces) |-> Strip(pieces[i])]
    IN  SelectSeq(stripped, LAMBDA k : k # <<>>)

\* line 238 with the quota left whole
QuotaUnsplit(keywords) == TOTAL_SEGMENT_TARGET

\* line 238
QuotaPerProduct(keywords) == Max(1, TOTAL_SEGMENT_TARGET \div Len(keywords))

\* lines 245-259 without the relaxed threshold of lines 253-254
ValidInfosUnrelaxed(kw, found) ==
    LET kw_chars == CharSet(Lower(kw))
        covers(m) ==
            LET clean_name == Lower(m.info.clean_name)
                overlap_count ==
                    Cardinality({ch \in kw_chars : ch \in CharSet(clean_name)})
                threshold == IF Cardinality(kw_chars) < 3 THEN 100 ELSE 60
            IN  /\ kw_chars # {}
                /\ overlap_count * 100 >= threshold * Cardinality(kw_chars)
    IN  Column(SelectSeq(found, covers), "info")

\* lines 245-259: the candidates whose name covers enough of the keyword
ValidInfos(kw, found) ==
    LET kw_chars == CharSet(Lower(kw))
        covers(m) ==
            LET clean_name == Lower(m.info.clean_name)
                overlap_count ==
                    Cardinality({ch \in kw_chars : ch \in CharSet(clean_name)})
                threshold ==
                    IF m.score >= HighConfidence THEN 50
                    ELSE IF Cardinality(kw_chars) < 3 THEN 100 ELSE 60
            IN  /\ kw_chars # {}
                /\ overlap_count * 100 >= threshold * Cardinality(kw_chars)
    IN  Column(SelectSeq(found, covers), "info")

CleanNames(infos) == Column(infos, "clean_name")

\* line 285 with the accumulated list re-sorted
ExtendSorted(final_segments, segs) == SortByScoreDesc(final_segments \o segs)

\* line 285
Extend(final_segments, segs) == final_segments \o segs

\* line 287 with the test dropped
NeedsFallbackAlways(final_segments) == TRUE

\* line 287
NeedsFallback(final_segments) == final_segments = <<>>

\* line 307 with the test dropped
NoContentNever(final_segments, summary_obj) == FALSE

\* line 307
NoContent(final_segments, summary_obj) ==
    final_segments = <<>> /\ ~TruthyText(summary_obj)

\* lines 314-321; list(set(...)) has no defined order, so the names are a set
ContextInfo(user_question, display_names_all, conversation_history) ==
    [unique_names |-> { display_names_all[i] : i \in 1..Len(display_names_all) },
     user_question |-> user_question,
     conversation_history |->
         IF TruthyText(conversation_history) THEN conversation_history ELSE None]

\* generate_with_gemini without lines 281-282: no scope restriction
generate_unscoped(user_question, segments, summary_obj, product_filter, extra_context) ==
    [user_question |-> user_question,
     segments |-> segments,
     summary_obj |-> summary_obj,
     context_text |->
         IF segments = <<>> /\ TruthyText(summary_obj)
         THEN << summary_obj[1] >>
         ELSE [i \in 1..Len(segments) |->
                  <<segments[i].source_title, segments[i].page, segments[i].text>>],
     extra_context |-> extra_context,
     scope |-> None]

\* generate.py, generate_with_gemini: what goes into the prompt
generate_with_gemini(user_question, segments, summary_obj, product_filter, extra_context) ==
    [user_question |-> user_question,
     segments |-> segments,
     summary_obj |-> summary_obj,
     context_text |->
         IF segments = <<>> /\ TruthyText(summary_obj)
         THEN << summary_obj[1] >>
         ELSE [i \in 1..Len(segments) |->
                  <<segments[i].source_title, segments[i].page, segments[i].text>>],
     extra_context |-> extra_context,
     scope |-> IF TruthyText(product_filter) THEN product_filter ELSE None]

GeminiAnswer == <<"gemini_answer">>

\* the response texts the generation model gives (generate.py line 296)
GeminiTexts == { GeminiAnswer, <<"gemini_apology">> }

\* no request in progress
NoRequest ==
    [pc |-> "idle", user_question |-> <<>>, product_filter |-> None,
     search_query |-> None, conversation_history |-> None,
     keywords |-> <<>>, quota_per_product |-> 0, i |-> 0,
     final_segments |-> <<>>, display_names_all |-> <<>>,
     summary_obj |-> None, seen_matches |-> {}, seen_segments |-> {},
     found |-> None,
     last_call |-> None, n_calls |-> 0, fallbacks |-> 0,
     generation |-> None, gens |-> 0, response |-> None, result |-> None]

\* no lookup called on its own
NoCall ==
    [op |-> "none", keyword |-> <<>>, top_k |-> 0, similarity |-> <<>>,
     embedding |-> "ok", matches |-> <<>>,
     response |-> [failed |-> FALSE, results |-> <<>>, summary |-> None],
     top_segments |-> 0, allowed_filenames |-> None,
     segments |-> <<>>, summary |-> None, raised |-> FALSE]

----------------------------------------------------------------------------
(* The handler in flight *)

\* no handler is running: the Application is waiting for the next update
Idle == h.cmd = "none"

NewHandler(cmd, c, args) ==
    [ cmd |-> cmd, chat |-> c, args |-> args, pc |-> "done",
      state |-> None,       \* the handler's local `state`
      title |-> <<>>,       \* the handler's local `title`
      replies |-> <<>>,     \* reply_text calls, in order
      gets |-> 0, sets |-> 0, dels |-> 0,   \* session store calls
      gens |-> 0,           \* generation calls
      lookups |-> 0,        \* workspace lookups
      appended |-> None,    \* workspace append: <<[page_id, summary]>>
      pre |-> redis[c] ]    \* the stored state when the command arrived

NoHandler ==
    [ cmd |-> "none", chat |-> 1, args |-> <<>>, pc |-> "done",
      state |-> None, title |-> <<>>, replies |-> <<>>,
      gets |-> 0, sets |-> 0, dels |-> 0, gens |-> 0, lookups |-> 0,
      appended |-> None, pre |-> None ]

Reply(hh, text) == [hh EXCEPT !.replies = Append(@, text)]

NewState(title, page_id, portrait) ==
    [ customer_title |-> title, page_id |-> page_id, portrait |-> portrait,
      history |-> <<>>, pending_summary |-> None, awaiting_save |-> FALSE ]

Entry(role, content) == [role |-> role, content |-> content]

----------------------------------------------------------------------------
(* telegram_handler.py *)

start(c) ==
    /\ Idle
    /\ h' = Reply(NewHandler("start", c, <<>>), <<"help">>)
    /\ finished' = None
    /\ UNCHANGED <<redis, redis_up, tasks, gcp>>

unknown_command(c) ==
    /\ Idle
    /\ h' = Reply(NewHandler("unknown", c, <<>>), <<"unknown_command">>)
    /\ finished' = None
    /\ UNCHANGED <<redis, redis_up, tasks, gcp>>

\* ask_command without its check for a session in progress
ask_command_unchecked(c, args) ==
    /\ Idle
    /\ LET h0 == NewHandler("ask", c, args)
       IN  IF args = <<>>
           THEN h' = Reply([h0 EXCEPT !.gets = 1], <<"ask_usage">>)
           ELSE h' = [h0 EXCEPT !.gets = 1, !.lookups = 1, !.pc = "await_hits"]
    /\ finished' = None
    /\ UNCHANGED <<redis, redis_up, tasks, gcp>>

\* ask_command up to its first await on the workspace (lines 38-62)
ask_command(c, args) ==
    /\ Idle
    /\ redis[c] # None => Len(redis[c][1].history) <= MaxHistory
    /\ LET h0 == NewHandler("ask", c, args)
           first == get_conv_state(c)
       IN  IF first # None
           THEN LET state == get_conv_state(c)
                    current_customer == state[1].customer_title
                IN  h' = Reply([h0 EXCEPT !.gets = 2],
                               <<"session_active">> \o current_customer)
           ELSE IF args = <<>>
           THEN h' = Reply([h0 EXCEPT !.gets = 1], <<"ask_usage">>)
           ELSE h' = [h0 EXCEPT !.gets = 1, !.lookups = 1, !.pc = "await_hits"]
    /\ finished' = None
    /\ UNCHANGED <<redis, redis_up, tasks, gcp>>

\* ask_command from the lookup's return to the await on answer_question
\* (lines 62-95 and 109-113)
ask_command_hits(lookup, portrait_call) ==
    /\ h.cmd = "ask" /\ h.pc = "await_hits"
    /\ LET customer_name == h.args[1]
           hits == find_customer_pages_by_title(customer_name)
       IN  IF lookup = "error"
           THEN /\ h' = Reply([h EXCEPT !.pc = "done"], <<"notion_error">>)
                /\ redis' = redis
           ELSE IF hits = <<>>
           THEN /\ h' = Reply([h EXCEPT !.pc = "done"],
                              <<"not_found">> \o customer_name)
                /\ redis' = redis
           ELSE IF Len(hits) > 1
           THEN /\ h' = Reply([h EXCEPT !.pc = "done"],
                              <<"ambiguous", Column(hits, "title")>>)
                /\ redis' = redis
           ELSE IF portrait_call = "error"
           THEN \* get_page_portrait_section raises: nothing catches it
                /\ h' = [h EXCEPT !.pc = "crashed", !.lookups = 2]
                /\ redis' = redis
           ELSE LET page == hits[1]
                    new_state == NewState(page.title, page.id,
                                          get_page_portrait_section(page.id))
                    h1 == Reply([h EXCEPT !.lookups = 2, !.sets = 1,
                                          !.title = page.title],
                                <<"analyzing">>)
                IN  /\ redis' = set_conv_state(redis, h.chat, new_state)
                    /\ IF Len(h.args) >= 2
                       THEN h' = [h1 EXCEPT !.pc = "await_answer", !.gens = 1]
                       ELSE \* answer_question(title, portrait, question,
                            \* history=...) lacks an argument: TypeError
                            h' = [h1 EXCEPT !.pc = "crashed"]
    /\ finished' = None
    /\ UNCHANGED <<redis_up, tasks, gcp>>

\* ask_command from answer_question's return to its end (lines 95-107)
ask_command_answer ==
    /\ h.cmd = "ask" /\ h.pc = "await_answer"
    /\ LET question == h.args[2]
           answer == answer_question
           current_state == get_conv_state(h.chat)
       IN  IF current_state = None
           THEN \* current_state["history"] on None: TypeError
                /\ h' = [h EXCEPT !.pc = "crashed", !.gets = @ + 1]
                /\ redis' = redis
           ELSE LET s1 == [current_state[1] EXCEPT !.history =
                              @ \o << Entry("user", question),
                                      Entry("assistant", answer) >>]
                IN  /\ redis' = set_conv_state(redis, h.chat, s1)
                    /\ h' = Reply([h EXCEPT !.pc = "done", !.gets = @ + 1,
                                            !.sets = @ + 1],
                                  <<"ask_answer">> \o h.title \o answer)
    /\ finished' = None
    /\ UNCHANGED <<redis_up, tasks, gcp>>

\* The task's `history` argument goes into the prompt of summarize_conversation
\* and nowhere else; the summary is tied to its session by `title`.
NewTask(c, title) ==
    [ chat |-> c, title |-> title,
      cancelled |-> FALSE,  \* /cancel deleted the session since the task began
      wrote |-> FALSE,      \* the task wrote pending_summary / awaiting_save
      sent |-> <<>> ]       \* what the task sent to the chat

end_command(c) ==
    /\ Idle
    /\ Len(tasks) < MaxTasks
    /\ LET h0 == [NewHandler("end", c, <<>>) EXCEPT !.gets = 1]
           state == get_conv_state(c)
       IN  IF state = None
           THEN /\ h' = Reply(h0, <<"no_session">>)
                /\ tasks' = tasks
           ELSE /\ h' = Reply(h0, <<"summarizing">>)
                /\ tasks' = Append(tasks, NewTask(c, state[1].customer_title))
    /\ finished' = None
    /\ UNCHANGED <<redis, redis_up, gcp>>

RemoveAt(s, i) == [j \in 1..(Len(s) - 1) |-> IF j < i THEN s[j] ELSE s[j + 1]]

\* _summarize_task without the return of lines 139-142: the summary is
\* stored whether or not the session is still there
summarize_task_blind(i, outcome, send) ==
    /\ i \in 1..Len(tasks)
    /\ LET t == tasks[i]
           summary_text == summarize_conversation(t.title, outcome)
           state == get_conv_state(t.chat)
           s0 == IF state = None THEN NewState(t.title, "none", <<>>)
                 ELSE state[1]
           s1 == [s0 EXCEPT !.pending_summary = Some(summary_text),
                            !.awaiting_save = TRUE]
       IN  /\ redis' = set_conv_state(redis, t.chat, s1)
           /\ finished' = Some([t EXCEPT !.wrote = TRUE,
                   !.sent = IF send = "ok"
                            THEN <<"draft">> \o summary_text
                            ELSE <<"summary_failed">>])
    /\ tasks' = RemoveAt(tasks, i)
    /\ UNCHANGED <<redis_up, h, gcp>>

\* _summarize_task without the set_conv_state of line 146: the draft is sent
\* and nothing is stored
summarize_task_unsaved(i, outcome, send) ==
    /\ i \in 1..Len(tasks)
    /\ LET t == tasks[i]
           summary_text == summarize_conversation(t.title, outcome)
           state == get_conv_state(t.chat)
       IN  IF state = None
           THEN /\ finished' = Some(t)
                /\ redis' = redis
           ELSE /\ redis' = redis
                /\ finished' = Some([t EXCEPT
                        !.sent = IF send = "ok"
                                 THEN <<"draft">> \o summary_text
                                 ELSE <<"summary_failed">>])
    /\ tasks' = RemoveAt(tasks, i)
    /\ UNCHANGED <<redis_up, h, gcp>>

\* _summarize_task from summarize_conversation's return to its end
summarize_task(i, outcome, send) ==
    /\ i \in 1..Len(tasks)
    /\ LET t == tasks[i]
           summary_text == summarize_conversation(t.title, outcome)
           state == get_conv_state(t.chat)
       IN  IF state = None
           THEN /\ finished' = Some(t)
                /\ redis' = redis
           ELSE LET s1 == [state[1] EXCEPT !.pending_summary = Some(summary_text),
                                           !.awaiting_save = TRUE]
                IN  /\ redis' = set_conv_state(redis, t.chat, s1)
                    /\ finished' = Some([t EXCEPT !.wrote = TRUE,
                            !.sent = IF send = "ok"
                                     THEN <<"draft">> \o summary_text
                                     ELSE <<"summary_failed">>])
    /\ tasks' = RemoveAt(tasks, i)
    /\ UNCHANGED <<redis_up, h, gcp>>

\* save_command with line 191 testing only that a session exists
save_command_unchecked(c) ==
    /\ Idle
    /\ LET h0 == [NewHandler("save", c, <<>>) EXCEPT !.gets = 1]
           state == get_conv_state(c)
       IN  IF state = None
           THEN h' = Reply(h0, <<"nothing_to_save">>)
           ELSE h' = Reply([h0 EXCEPT !.state = state, !.pc = "await_append",
                                      !.title = state[1].customer_title],
                           <<"writing">>)
    /\ finished' = None
    /\ UNCHANGED <<redis, redis_up, tasks, gcp>>

\* save_command up to the await on the workspace append (lines 184-240)
save_command(c) ==
    /\ Idle
    /\ LET h0 == [NewHandler("save", c, <<>>) EXCEPT !.gets = 1]
           state == get_conv_state(c)
       IN  IF state = None \/ ~state[1].awaiting_save
           THEN h' = Reply(h0, <<"nothing_to_save">>)
           ELSE h' = Reply([h0 EXCEPT !.state = state, !.pc = "await_append",
                                      !.title = state[1].customer_title],
                           <<"writing">>)
    /\ finished' = None
    /\ UNCHANGED <<redis, redis_up, tasks, gcp>>

\* save_command from the append's return to its end (lines 240-246)
save_command_append(outcome) ==
    /\ h.cmd = "save" /\ h.pc = "await_append"
    /\ LET state == h.state[1]
           summary_text == IF state.pending_summary = None THEN <<>>
                           ELSE state.pending_summary[1]
       IN  IF outcome = "ok"
           THEN /\ redis' = delete_conv_state(redis, h.chat)
                /\ h' = Reply([h EXCEPT !.pc = "done", !.dels = 1,
                                 !.state = None,
                                 !.appended = Some([page_id |-> state.page_id,
                                                    summary |-> summary_text])],
                              <<"saved">> \o h.title)
           ELSE IF outcome = "unconfirmed"
           THEN \* the append is made, the reply of line 241 raises: the
                \* except clause answers and line 243 is not reached
                /\ redis' = redis
                /\ h' = Reply([h EXCEPT !.pc = "done", !.state = None,
                                 !.appended = Some([page_id |-> state.page_id,
                                                    summary |-> summary_text])],
                              <<"save_error">>)
           ELSE /\ redis' = redis
                /\ h' = Reply([h EXCEPT !.pc = "done", !.state = None],
                              <<"save_error">>)
    /\ finished' = None
    /\ UNCHANGED <<redis_up, tasks, gcp>>

\* handle_message up to the await on refine_summary, or to its end
\* (lines 248-262 and 276-281)
handle_message(c, message_text) ==
    /\ Idle
    /\ LET h0 == [NewHandler("message", c, <<message_text>>) EXCEPT !.gets = 1]
           state == get_conv_state(c)
       IN  IF state = None
           THEN /\ h' = h0
                /\ redis' = redis
           ELSE IF state[1].awaiting_save
           THEN /\ h' = Reply([h0 EXCEPT !.state = state, !.gens = 1,
                                         !.pc = "await_refine"],
                              <<"refining">>)
                /\ redis' = redis
           ELSE /\ Len(state[1].history) < MaxHistory
                /\ LET s1 == [state[1] EXCEPT !.history =
                                  Append(@, Entry("discussion", message_text))]
                   IN  /\ redis' = set_conv_state(redis, c, s1)
                       /\ h' = [h0 EXCEPT !.sets = 1]
    /\ finished' = None
    /\ UNCHANGED <<redis_up, tasks, gcp>>

\* handle_message's refinement storing the revised summary as a draft that
\* is no longer waiting to be saved
handle_message_refined_reset ==
    /\ h.cmd = "message" /\ h.pc = "await_refine"
    /\ LET state == h.state[1]
       IN  IF state.pending_summary = None
           THEN /\ h' = [h EXCEPT !.pc = "crashed"]
                /\ redis' = redis
           ELSE LET new_summary == refine_summary(state.pending_summary[1])
                    s1 == [state EXCEPT !.pending_summary = Some(new_summary),
                                        !.awaiting_save = FALSE]
                IN  /\ redis' = set_conv_state(redis, h.chat, s1)
                    /\ h' = Reply([h EXCEPT !.pc = "done", !.sets = 1,
                                            !.state = None],
                                  <<"revised">> \o new_summary)
    /\ finished' = None
    /\ UNCHANGED <<redis_up, tasks, gcp>>

\* handle_message from refine_summary's return to its end (lines 262-274)
handle_message_refined ==
    /\ h.cmd = "message" /\ h.pc = "await_refine"
    /\ LET state == h.state[1]
       IN  IF state.pending_summary = None
           THEN \* state["pending_summary"]: KeyError
                /\ h' = [h EXCEPT !.pc = "crashed"]
                /\ redis' = redis
           ELSE LET new_summary == refine_summary(state.pending_summary[1])
                    s1 == [state EXCEPT !.pending_summary = Some(new_summary)]
                IN  /\ redis' = set_conv_state(redis, h.chat, s1)
                    /\ h' = Reply([h EXCEPT !.pc = "done", !.sets = 1,
                                            !.state = None],
                                  <<"revised">> \o new_summary)
    /\ finished' = None
    /\ UNCHANGED <<redis_up, tasks, gcp>>

\* the 1-based position of the last assistant entry, 0 when there is none
\* (last_assistant_index + 1)
LastAssistant(history) ==
    LET hits == { i \in 1..Len(history) : history[i].role = "assistant" }
    IN  IF hits = {} THEN 0 ELSE CHOOSE i \in hits : \A j \in hits : j <= i

\* the compaction with history_before_segment left out: the summary replaces
\* the whole history
CompactWhole(history, summary_text) ==
    << Entry("assistant", summary_text) >>

\* history_before_segment + [{"role": "assistant", "content": summary_text}]
Compact(history, summary_text) ==
    LET last == LastAssistant(history)
        history_before_segment ==
            IF last # 0 THEN SubSeq(history, 1, last - 1) ELSE <<>>
    IN  Append(history_before_segment, Entry("assistant", summary_text))

\* query_command up to its awaits (lines 283-318)
query_command(c, args) ==
    /\ Idle
    /\ LET h0 == [NewHandler("query", c, args) EXCEPT !.gets = 1]
           state == get_conv_state(c)
       IN  IF state = None
           THEN h' = Reply(h0, <<"no_conversation">>)
           ELSE IF args = <<>>
           THEN h' = Reply(h0, <<"query_usage">>)
           ELSE h' = Reply([h0 EXCEPT !.state = state, !.pc = "await_query"],
                           <<"querying">>)
    /\ finished' = None
    /\ UNCHANGED <<redis, redis_up, tasks, gcp>>

\* query_command from the answer's return to its end (lines 318-333)
query_command_answer ==
    /\ h.cmd = "query" /\ h.pc = "await_query"
    /\ LET state == h.state[1]
           answer == answer_with_grounding
           summary_text == summarize_segment
           s1 == [state EXCEPT !.history = Compact(state.history, summary_text)]
       IN  /\ redis' = set_conv_state(redis, h.chat, s1)
           /\ h' = Reply([h EXCEPT !.pc = "done", !.sets = 1, !.gens = 2,
                                   !.state = None],
                         answer)
    /\ finished' = None
    /\ UNCHANGED <<redis_up, tasks, gcp>>

\* database_command up to its awaits (lines 335-401)
database_command(c, args) ==
    /\ Idle
    /\ LET h0 == [NewHandler("products", c, args) EXCEPT !.gets = 1]
           state == get_conv_state(c)
       IN  IF state = None
           THEN h' = Reply(h0, <<"no_conversation">>)
           ELSE IF args = <<>>
           THEN h' = Reply(h0, <<"products_usage">>)
           ELSE \* extract_product_from_query, extract_keywords_from_query
                h' = Reply([h0 EXCEPT !.state = state, !.gens = 2,
                                      !.pc = "await_kb"],
                           <<"searching">>)
    /\ finished' = None
    /\ UNCHANGED <<redis, redis_up, tasks, gcp>>

KbText(outcome) ==
    IF outcome = "answer" THEN <<"kb_answer">> ELSE <<"no_content">>

\* database_command from query_knowledge_base's return to its end
\* (lines 395-416)
database_command_answer(kb_outcome) ==
    /\ h.cmd = "products" /\ h.pc = "await_kb"
    /\ IF kb_outcome = "raise"
       THEN \* nothing catches the exception of query_knowledge_base
            /\ h' = [h EXCEPT !.pc = "crashed", !.gens = @ + 1]
            /\ redis' = redis
       ELSE LET state == h.state[1]
                answer == KbText(kb_outcome)
                summary_text == summarize_segment
                s1 == [state EXCEPT !.history =
                           Compact(state.history, summary_text)]
            IN  /\ redis' = set_conv_state(redis, h.chat, s1)
                /\ h' = Reply([h EXCEPT !.pc = "done", !.sets = 1,
                                 !.gens = @ + 1 +
                                     (IF kb_outcome = "answer" THEN 1 ELSE 0),
                                 !.state = None],
                              answer)
    /\ finished' = None
    /\ UNCHANGED <<redis_up, tasks, gcp>>

\* direct_database_command ending as database_command does (lines 404-415):
\* the answer is folded into the history of the session, when there is one
direct_database_command_logged(c, args, kb_outcome) ==
    /\ Idle
    /\ LET h0 == NewHandler("search_db", c, args)
           state == get_conv_state(c)
       IN  IF args = <<>>
           THEN h' = Reply(h0, <<"search_db_usage">>) /\ redis' = redis
           ELSE IF kb_outcome = "raise"
           THEN /\ h' = Reply([h0 EXCEPT !.pc = "crashed", !.gens = 3],
                              <<"searching">>)
                /\ redis' = redis
           ELSE /\ h' = Reply(Reply([h0 EXCEPT !.gens = 2 +
                                     (IF kb_outcome = "answer" THEN 1 ELSE 0)],
                                 <<"searching">>),
                           KbText(kb_outcome))
                /\ redis' = IF state = None THEN redis
                            ELSE set_conv_state(redis, c,
                                   [state[1] EXCEPT !.history =
                                       Compact(@, summarize_segment)])
    /\ finished' = None
    /\ UNCHANGED <<redis_up, tasks, gcp>>

\* direct_database_command (lines 422-461)
direct_database_command(c, args, kb_outcome) ==
    /\ Idle
    /\ LET h0 == NewHandler("search_db", c, args)
       IN  IF args = <<>>
           THEN h' = Reply(h0, <<"search_db_usage">>)
           ELSE IF kb_outcome = "raise"
           THEN h' = Reply([h0 EXCEPT !.pc = "crashed", !.gens = 3],
                           <<"searching">>)
           ELSE h' = Reply(Reply([h0 EXCEPT !.gens = 2 +
                                     (IF kb_outcome = "answer" THEN 1 ELSE 0)],
                                 <<"searching">>),
                           KbText(kb_outcome))
    /\ finished' = None
    /\ UNCHANGED <<redis, redis_up, tasks, gcp>>

\* cancel_command that answers without deleting the session
cancel_command_keeps(c) ==
    /\ Idle
    /\ LET h0 == [NewHandler("cancel", c, <<>>) EXCEPT !.gets = 1]
       IN  IF get_conv_state(c) # None
           THEN h' = Reply(h0, <<"cancelled">>)
           ELSE h' = Reply(h0, <<"no_session">>)
    /\ finished' = None
    /\ UNCHANGED <<redis, redis_up, tasks, gcp>>

\* cancel_command that deletes the key before looking whether it is there
cancel_command_blind(c) ==
    /\ Idle
    /\ LET h0 == [NewHandler("cancel", c, <<>>) EXCEPT !.gets = 1, !.dels = 1]
       IN  /\ redis' = delete_conv_state(redis, c)
           /\ IF get_conv_state(c) # None
              THEN h' = Reply(h0, <<"cancelled">>)
              ELSE h' = Reply(h0, <<"no_session">>)
           /\ tasks' = [i \in 1..Len(tasks) |->
                          IF tasks[i].chat = c /\ get_conv_state(c) # None
                          THEN [tasks[i] EXCEPT !.cancelled = TRUE]
                          ELSE tasks[i]]
    /\ finished' = None
    /\ UNCHANGED <<redis_up, gcp>>

cancel_command(c) ==
    /\ Idle
    /\ LET h0 == [NewHandler("cancel", c, <<>>) EXCEPT !.gets = 1]
       IN  IF get_conv_state(c) # None
           THEN /\ redis' = delete_conv_state(redis, c)
                /\ h' = Reply([h0 EXCEPT !.dels = 1], <<"cancelled">>)
                /\ tasks' = [i \in 1..Len(tasks) |->
                               IF tasks[i].chat = c
                               THEN [tasks[i] EXCEPT !.cancelled = TRUE]
                               ELSE tasks[i]]
           ELSE /\ redis' = redis
                /\ h' = Reply(h0, <<"no_session">>)
                /\ tasks' = tasks
    /\ finished' = None
    /\ UNCHANGED <<redis_up, gcp>>

----------------------------------------------------------------------------
(* The chat layer: one handler at a time, tasks in between *)

\* Application.process_update: the handler has returned or raised (the error
\* is logged), and the next update is awaited
handler_returns ==
    /\ h.cmd # "none" /\ h.pc \in {"done", "crashed"}
    /\ h' = NoHandler
    /\ finished' = None
    /\ UNCHANGED <<redis, redis_up, tasks, gcp>>

Init ==
    /\ redis = [c \in ChatIds |-> None]
    /\ redis_up = TRUE
    /\ h = NoHandler
    /\ tasks = <<>>
    /\ finished = None
    /\ product_files = <<>>
    /\ file_index = <<>>
    /\ kb = NoRequest
    /\ fn = NoCall

Next ==
    \/ \E c \in ChatIds : start(c)
    \/ \E c \in ChatIds : unknown_command(c)
    \/ \E c \in ChatIds, args \in AskArgs : ask_command(c, args)
    \/ \E lookup \in Outcomes, portrait_call \in Outcomes :
           ask_command_hits(lookup, portrait_call)
    \/ ask_command_answer
    \/ \E c \in ChatIds : end_command(c)
    \/ \E i \in 1..MaxTasks, outcome \in Outcomes, send \in Outcomes :
           summarize_task(i, outcome, send)
    \/ \E c \in ChatIds : save_command(c)
    \/ \E outcome \in SaveOutcomes : save_command_append(outcome)
    \/ \E c \in ChatIds, text \in MessageTexts : handle_message(c, text)
    \/ handle_message_refined
    \/ \E c \in ChatIds, args \in QuestionArgs : query_command(c, args)
    \/ query_command_answer
    \/ \E c \in ChatIds, args \in QuestionArgs : database_command(c, args)
    \/ \E kb_outcome \in KbOutcomes : database_command_answer(kb_outcome)
    \/ \E c \in ChatIds, args \in QuestionArgs, kb_outcome \in KbOutcomes :
           direct_database_command(c, args, kb_outcome)
    \/ \E c \in ChatIds : cancel_command(c)
    \/ handler_returns

Spec == Init /\ [][Next]_vars

\* The event loop runs a task it was given: once the generation call of a
\* summary task has returned, the rest of the task is run.
TaskRuns ==
    \E i \in 1..MaxTasks, outcome \in Outcomes, send \in Outcomes :
        summarize_task(i, outcome, send)

SpecLive == Init /\ [][Next]_vars /\ WF_vars(TaskRuns)

----------------------------------------------------------------------------
(* The session store failing *)

\* the Redis server stops answering: from now on get_conv_state catches the
\* error and returns None (redis_client.py lines 16-18), set_conv_state and
\* delete_conv_state catch it and do nothing (lines 26-27, 34-35)
store_fails ==
    /\ redis_up
    /\ redis_up' = FALSE
    /\ UNCHANGED <<redis, h, tasks, finished, gcp>>

\* the server answers again, with the keys it had
store_recovers ==
    /\ ~redis_up
    /\ redis_up' = TRUE
    /\ UNCHANGED <<redis, h, tasks, finished, gcp>>

\* the commands that open, fill and close a session, with the store
\* failing and recovering at any moment between their steps
NextStore ==
    \/ \E c \in ChatIds, args \in AskArgs : ask_command(c, args)
    \/ \E lookup \in Outcomes, portrait_call \in Outcomes :
           ask_command_hits(lookup, portrait_call)
    \/ ask_command_answer
    \/ \E c \in ChatIds, text \in MessageTexts : handle_message(c, text)
    \/ \E c \in ChatIds : cancel_command(c)
    \/ handler_returns
    \/ store_fails
    \/ store_recovers

SpecStore == Init /\ [][NextStore]_vars

----------------------------------------------------------------------------
(* One knowledge-base request at a time *)

\* the similarity of one text to every catalog entry
Similarities == [1..Len(product_files) -> ScoreLevels]

\* what _match_filenames_by_vector can return for a text, given the outcome
\* of the text's embedding call
MatchOutcomes(keyword, top_k, embedding) ==
    { match_filenames_by_vector(keyword, top_k, similarity, embedding) :
          similarity \in Similarities }

\* The summary of a per-keyword response is dropped by the caller (line 277):
\* the keyword loop is run against the responses that carry none.
KeywordResponses == { x \in SearchResponses : x.summary = None }

\* where the request goes once the keyword loop is over (line 287)
AfterKeywords(final_segments) ==
    IF NeedsFallback(final_segments) THEN "fallback" ELSE "generate"

\* the record of one _search_segments call and of the vector match before it
SearchCall(stage, keyword, candidates, query, max_results, top_segments, allowed_filenames, response, r) ==
    [stage |-> stage, keyword |-> keyword, candidates |-> candidates,
     query |-> query,
     max_results |-> max_results, top_segments |-> top_segments,
     allowed_filenames |-> allowed_filenames, failed |-> response.failed,
     segments |-> r.segments, summary |-> r.summary, raised |-> r.raised]

\* lines 226-239: entry, the filter split into keywords, the quota
query_knowledge_base(user_question, product_filter, search_query, conversation_history) ==
    /\ kb.pc = "idle"
    /\ LET keywords == IF TruthyText(product_filter)
                       THEN ParseKeywords(product_filter[1]) ELSE <<>>
       IN  kb' = [NoRequest EXCEPT
                    !.user_question = user_question,
                    !.product_filter = product_filter,
                    !.search_query = search_query,
                    !.conversation_history = conversation_history,
                    !.keywords = keywords,
                    !.quota_per_product =
                        IF keywords # <<>> THEN QuotaPerProduct(keywords) ELSE 0,
                    !.i = 1,
                    !.pc = IF keywords # <<>> THEN "keywords"
                           ELSE AfterKeywords(<<>>)]
    /\ UNCHANGED <<redis, redis_up, h, tasks, finished, product_files, file_index, fn>>

\* lines 241-285: one turn of the keyword loop; kb.found is `found` of the
\* turn just made.  Within one request the
\* embedding model and the search backend answer a repeated keyword as they
\* answered it before, which seen_matches and seen_segments keep until the
\* loop ends; a call can still fail.
kb_keyword ==
    /\ kb.pc = "keywords"
    /\ \E embedding \in Outcomes :
       \E found \in MatchOutcomes(kb.keywords[kb.i], 3, embedding) :
       \E valid_names \in {CleanNames(ValidInfos(kb.keywords[kb.i], found))} :
         LET kw == kb.keywords[kb.i]
             last == kb.i = Len(kb.keywords)
             seen_matches ==
                 IF last THEN {}
                 ELSE IF embedding = "ok"
                 THEN kb.seen_matches \cup {[keyword |-> kw, found |-> found]}
                 ELSE kb.seen_matches
             next_pc(segments) ==
                 IF last THEN AfterKeywords(segments)
                 ELSE "keywords"
         IN  /\ embedding = "ok" =>
                    \A m \in kb.seen_matches :
                        m.keyword = kw => m.found = found
             /\ IF valid_names = <<>>
                THEN kb' = [kb EXCEPT
                              !.i = @ + 1,
                              !.found = Some(found),
                              !.pc = next_pc(kb.final_segments),
                              !.seen_matches = seen_matches,
                              !.seen_segments = IF last THEN {} ELSE @]
                ELSE \E response \in KeywordResponses :
                     \E r \in {search_segments(response, kb.quota_per_product,
                                               Some(valid_names))} :
                     \E final_segments \in {Extend(kb.final_segments, r.segments)} :
                       /\ ~response.failed =>
                              \A m \in kb.seen_segments :
                                  m.keyword = kw => m.segments = r.segments
                       /\ kb' = [kb EXCEPT
                                   !.i = @ + 1,
                                   !.found = Some(found),
                                   !.pc = IF r.raised THEN "raised"
                                          ELSE next_pc(final_segments),
                                   !.display_names_all = @ \o valid_names,
                                   !.final_segments =
                                       IF r.raised THEN @ ELSE final_segments,
                                   !.seen_matches = seen_matches,
                                   !.seen_segments =
                                       IF last THEN {}
                                       ELSE IF response.failed THEN @
                                       ELSE @ \cup {[keyword |-> kw,
                                                     segments |-> r.segments]},
                                   !.last_call =
                                       Some(SearchCall("keyword", kw, found,
                                                <<valid_names, kw,
                                                  kb.user_question>>, 5,
                                                kb.quota_per_product,
                                                Some(valid_names), response, r)),
                                   !.n_calls = @ + 1]
    /\ UNCHANGED <<redis, redis_up, h, tasks, finished, product_files, file_index, fn>>

\* lines 287-308 with the retrieval made only when the vector match names a
\* file: without a candidate the request ends with the fixed message
kb_fallback_scoped ==
    /\ kb.pc = "fallback"
    /\ \E embedding \in Outcomes :
       \E vector_matches \in MatchOutcomes(kb.user_question, 5, embedding) :
       \E response \in SearchResponses :
       \E matched_names \in {CleanNames(Column(vector_matches, "info"))} :
       \E allowed_filenames \in {IF vector_matches # <<>>
                                 THEN Some(matched_names) ELSE None} :
       \E r \in {search_segments(response, TOTAL_SEGMENT_TARGET,
                                 allowed_filenames)} :
         LET final_search_query ==
                 IF TruthyText(kb.search_query) THEN kb.search_query[1]
                 ELSE kb.user_question
             stop == vector_matches = <<>>
                     \/ (~r.raised /\ NoContent(r.segments, r.summary))
         IN  kb' = [kb EXCEPT
                      !.pc = IF r.raised THEN "raised"
                             ELSE IF stop THEN "returned" ELSE "generate",
                      !.display_names_all = @ \o matched_names,
                      !.found = None,
                      !.final_segments = r.segments,
                      !.summary_obj = r.summary,
                      !.result = IF stop THEN Some(NoContentMessage) ELSE None,
                      !.last_call =
                          Some(SearchCall("fallback", kb.user_question,
                                   vector_matches,
                                   final_search_query, 5, TOTAL_SEGMENT_TARGET,
                                   allowed_filenames, response, r)),
                      !.n_calls = IF vector_matches = <<>> THEN @ ELSE @ + 1,
                      !.fallbacks = @ + 1]
    /\ UNCHANGED <<redis, redis_up, h, tasks, finished, product_files, file_index, fn>>

\* lines 287-308: the single retrieval for the whole question
kb_fallback ==
    /\ kb.pc = "fallback"
    /\ \E embedding \in Outcomes :
       \E vector_matches \in MatchOutcomes(kb.user_question, 5, embedding) :
       \E response \in SearchResponses :
       \E matched_names \in {CleanNames(Column(vector_matches, "info"))} :
       \E allowed_filenames \in {IF vector_matches # <<>>
                                 THEN Some(matched_names) ELSE None} :
       \E r \in {search_segments(response, TOTAL_SEGMENT_TARGET,
                                 allowed_filenames)} :
         LET final_search_query ==
                 IF TruthyText(kb.search_query) THEN kb.search_query[1]
                 ELSE kb.user_question
             stop == ~r.raised /\ NoContent(r.segments, r.summary)
         IN  kb' = [kb EXCEPT
                      !.pc = IF r.raised THEN "raised"
                             ELSE IF stop THEN "returned" ELSE "generate",
                      !.display_names_all = @ \o matched_names,
                      !.found = None,
                      !.final_segments = r.segments,
                      !.summary_obj = r.summary,
                      !.result = IF stop THEN Some(NoContentMessage) ELSE None,
                      !.last_call =
                          Some(SearchCall("fallback", kb.user_question,
                                   vector_matches,
                                   final_search_query, 5, TOTAL_SEGMENT_TARGET,
                                   allowed_filenames, response, r)),
                      !.n_calls = @ + 1,
                      !.fallbacks = @ + 1]
    /\ UNCHANGED <<redis, redis_up, h, tasks, finished, product_files, file_index, fn>>

\* lines 310-331 with the generation call made again after the first
kb_generate_twice(outcome) ==
    /\ kb.pc = "generate"
    /\ \E text \in GeminiTexts :
       LET context_info ==
               ContextInfo(kb.user_question, kb.display_names_all,
                           kb.conversation_history)
           call == generate_with_gemini(kb.user_question, kb.final_segments,
                                        None, kb.product_filter, context_info)
       IN  kb' = [kb EXCEPT
                    !.generation = Some(call),
                    !.found = None,
                    !.gens = @ + 2,
                    !.pc = IF outcome = "ok" THEN "returned" ELSE "raised",
                    !.response = IF outcome = "ok" THEN Some(text) ELSE None,
                    !.result = IF outcome = "ok" THEN Some(text) ELSE None]
    /\ UNCHANGED <<redis, redis_up, h, tasks, finished, product_files, file_index, fn>>

\* lines 310-331: the one generation call, whose response text is returned
\* as it is (generate.py line 296); its error is not caught
kb_generate(outcome) ==
    /\ kb.pc = "generate"
    /\ \E text \in GeminiTexts :
       LET context_info ==
               ContextInfo(kb.user_question, kb.display_names_all,
                           kb.conversation_history)
           call == generate_with_gemini(kb.user_question, kb.final_segments,
                                        None, kb.product_filter, context_info)
       IN  kb' = [kb EXCEPT
                    !.generation = Some(call),
                    !.found = None,
                    !.gens = @ + 1,
                    !.pc = IF outcome = "ok" THEN "returned" ELSE "raised",
                    !.response = IF outcome = "ok" THEN Some(text) ELSE None,
                    !.result = IF outcome = "ok" THEN Some(text) ELSE None]
    /\ UNCHANGED <<redis, redis_up, h, tasks, finished, product_files, file_index, fn>>

\* the caller has the answer, or the exception
kb_done ==
    /\ kb.pc \in {"returned", "raised"}
    /\ kb' = NoRequest
    /\ UNCHANGED <<redis, redis_up, h, tasks, finished, product_files, file_index, fn>>

\* GcpService.__init__, lines 29-32: the catalog and the index are built once
InitKB ==
    /\ redis = [c \in ChatIds |-> None]
    /\ redis_up = TRUE
    /\ h = NoHandler
    /\ tasks = <<>>
    /\ finished = None
    /\ \E listing \in {None, Some(BucketBlobs)} :
         /\ product_files = fetch_all_filenames(listing)
         /\ \E embedding \in Outcomes :
              file_index = build_filename_index(product_files,
                               [i \in 1..Len(product_files) |-> embedding = "ok"])
    /\ kb = NoRequest
    /\ fn = NoCall

NextKB ==
    \/ \E q \in UserQuestions, pf \in ProductFilters, ctx \in RequestContexts :
           query_knowledge_base(q, pf, ctx.search_query,
                                ctx.conversation_history)
    \/ kb_keyword
    \/ kb_fallback
    \/ \E outcome \in Outcomes : kb_generate(outcome)
    \/ kb_done

SpecKB == InitKB /\ [][NextKB]_vars

----------------------------------------------------------------------------
(* The two lookups of GcpService, each called on its own *)

\* the allow-lists a caller passes to _search_segments
AllowLists ==
    { None, Some(<<>>) }
    \cup { Some(q) : q \in DistinctSeqs({ <<"a", "b", "-", "x">>,
                                          <<"A", "b", "-", "x">>,
                                          <<"c", "d">> }, 2) \ {<<>>} }

\* the segment limits: one, the limit of the spec's example, a share of the
\* target, the target
SegmentLimits == {1, 2, TOTAL_SEGMENT_TARGET \div 2, TOTAL_SEGMENT_TARGET}

\* _match_filenames_by_vector with line 130 sorting the index itself by the
\* keyword's similarity instead of the list of matches
fn_match_sorting ==
    /\ fn.op = "none"
    /\ \E keyword \in {<<>>, <<"A", "b">>}, top_k \in {3, 5},
          similarity \in Similarities, embedding \in Outcomes :
         /\ fn' = [NoCall EXCEPT
                    !.op = "match", !.keyword = keyword, !.top_k = top_k,
                    !.similarity = similarity, !.embedding = embedding,
                    !.matches = match_filenames_by_vector(keyword, top_k,
                                                          similarity, embedding)]
         /\ file_index' =
               IF keyword = <<>> \/ embedding = "error" THEN file_index
               ELSE LET scored == [i \in 1..Len(file_index) |->
                                      [score |-> similarity[file_index[i].position],
                                       entry |-> file_index[i]]]
                        sorted == SortByScoreDesc(scored)
                    IN  [i \in 1..Len(sorted) |-> sorted[i].entry]
    /\ UNCHANGED <<redis, redis_up, h, tasks, finished, product_files, kb>>

\* _match_filenames_by_vector called with a keyword (lines 102-134)
fn_match ==
    /\ fn.op = "none"
    /\ \E keyword \in {<<>>, <<"A", "b">>}, top_k \in {3, 5},
          similarity \in Similarities, embedding \in Outcomes :
         fn' = [NoCall EXCEPT
                  !.op = "match", !.keyword = keyword, !.top_k = top_k,
                  !.similarity = similarity, !.embedding = embedding,
                  !.matches = match_filenames_by_vector(keyword, top_k,
                                                        similarity, embedding)]
    /\ UNCHANGED <<redis, redis_up, h, tasks, finished, product_files, file_index, kb>>

\* _search_segments called with a segment limit and an allow-list, for one
\* response of the backend (lines 136-224)
fn_search ==
    /\ fn.op = "none"
    /\ \E response \in SearchResponses, top_segments \in SegmentLimits,
          allowed_filenames \in AllowLists :
       \E r \in {search_segments(response, top_segments, allowed_filenames)} :
         fn' = [NoCall EXCEPT
                  !.op = "search", !.response = response,
                  !.top_segments = top_segments,
                  !.allowed_filenames = allowed_filenames,
                  !.segments = r.segments, !.summary = r.summary,
                  !.raised = r.raised]
    /\ UNCHANGED <<redis, redis_up, h, tasks, finished, product_files, file_index, kb>>

\* the caller has the lookup's result
fn_return ==
    /\ fn.op # "none"
    /\ fn' = NoCall
    /\ UNCHANGED <<redis, redis_up, h, tasks, finished, product_files, file_index, kb>>

\* GcpService.__init__ over the wide bucket; the embedding call of any one
\* catalog entry may have failed (lines 91-97)
InitFn ==
    /\ redis = [c \in ChatIds |-> None]
    /\ redis_up = TRUE
    /\ h = NoHandler
    /\ tasks = <<>>
    /\ finished = None
    /\ product_files = fetch_all_filenames(Some(WideBucket))
    /\ \E missing \in 0..Len(WideBucket) :
         file_index = build_filename_index(product_files,
                          [i \in 1..Len(product_files) |-> i # missing])
    /\ kb = NoRequest
    /\ fn = NoCall

NextFn ==
    \/ fn_match
    \/ fn_search
    \/ fn_return

SpecFn == InitFn /\ [][NextFn]_vars

----------------------------------------------------------------------------
(* Session commands *)

\* the step in which the Application hands a new update to handler `cmd`
Dispatched(cmd) == h.cmd = "none" /\ h'.cmd = cmd

\* C1: an /ask that arrives while session state exists for the conversation is
\* rejected with the message naming the active customer, makes no workspace
\* lookup and no generation call, and leaves the stored state as it was.
C1_AskRejectedWhileActive ==
    [][ (Dispatched("ask") /\ redis[h'.chat] # None) =>
            /\ h'.pc = "done"
            /\ h'.replies =
                 << <<"session_active">> \o redis[h'.chat][1].customer_title >>
            /\ h'.lookups = 0 /\ h'.gens = 0
            /\ h'.sets = 0 /\ h'.dels = 0
            /\ redis' = redis ]_vars

\* an /ask for another customer was rejected while a session was in progress
C1_Witness ==
    /\ h.cmd = "ask" /\ h.pc = "done" /\ h.pre # None
    /\ h.args # <<>> /\ h.args[1] # h.pre[1].customer_title
    /\ h.replies = << <<"session_active">> \o h.pre[1].customer_title >>

\* C2: a /cancel that arrives while a session exists deletes the whole stored
\* state (pending summary and awaiting_save with it), issues no generation call
\* and appends nothing to the workspace page.
C2_CancelDeletesSession ==
    [][ (Dispatched("cancel") /\ redis[h'.chat] # None) =>
            /\ redis'[h'.chat] = None
            /\ h'.pc = "done"
            /\ h'.gens = 0 /\ h'.lookups = 0 /\ h'.appended = None
            /\ h'.sets = 0 ]_vars

\* a session with a summary waiting to be saved was cancelled
C2_Witness ==
    /\ h.cmd = "cancel" /\ h.pc = "done"
    /\ h.pre # None /\ h.pre[1].awaiting_save /\ h.pre[1].pending_summary # None
    /\ redis[h.chat] = None

\* C3: a /cancel that arrives when no session exists answers that there is no
\* session in progress, and neither writes nor deletes in the session store.
C3_CancelWithoutSession ==
    [][ (Dispatched("cancel") /\ redis[h'.chat] = None) =>
            /\ h'.replies = << <<"no_session">> >>
            /\ h'.pc = "done"
            /\ h'.sets = 0 /\ h'.dels = 0
            /\ redis' = redis ]_vars

\* a /cancel was answered with "no session" while none was stored
C3_Witness ==
    /\ h.cmd = "cancel" /\ h.pc = "done" /\ h.pre = None
    /\ h.replies = << <<"no_session">> >>

----------------------------------------------------------------------------
(* Retrieval planning in query_knowledge_base *)

ScoreDescending(segments) ==
    \A i \in 1..(Len(segments) - 1) : segments[i].score >= segments[i + 1].score

KeywordStage == {"idle", "keywords"}

\* C5: for a filter of N >= 1 keywords the quota is max(1, 12 // N); every
\* per-keyword retrieval is called with that quota as its segment limit and
\* returns no more than it, and the segments accumulated by the keyword
\* stage never number more than N times the quota.
C5_QuotaPerKeyword ==
    (kb.pc # "idle" /\ kb.keywords # <<>>) =>
        LET N == Len(kb.keywords)
            quota == IF N > TOTAL_SEGMENT_TARGET THEN 1
                     ELSE TOTAL_SEGMENT_TARGET \div N
        IN  /\ kb.quota_per_product = quota
            /\ (kb.last_call # None /\ kb.last_call[1].stage = "keyword") =>
                   /\ kb.last_call[1].top_segments = quota
                   /\ Len(kb.last_call[1].segments) <= quota
            /\ kb.fallbacks = 0 => Len(kb.final_segments) <= N * quota

C5_Witness ==
    /\ kb.pc = "generate"
    /\ Len(kb.keywords) > TOTAL_SEGMENT_TARGET
    /\ kb.last_call[1].stage = "keyword"
    /\ Len(kb.last_call[1].segments) = 1
    /\ Len(kb.final_segments) = Len(kb.keywords)

\* C6: each per-keyword retrieval appends its block, in score-descending
\* order, to the end of the accumulated list; a keyword without retrieval
\* leaves the list alone; the generator is handed the accumulated list as it
\* stands, so blocks of different keywords are never sorted against each
\* other.
C6_SegmentsInKeywordOrder ==
    [][ /\ (kb.pc = "keywords" /\ kb'.n_calls = kb.n_calls + 1) =>
               /\ kb'.final_segments =
                      kb.final_segments \o kb'.last_call[1].segments
               /\ ScoreDescending(kb'.last_call[1].segments)
        /\ (kb.pc = "keywords" /\ kb'.n_calls = kb.n_calls) =>
               kb'.final_segments = kb.final_segments
        /\ kb.pc = "generate" =>
               kb'.generation = Some(generate_with_gemini(
                   kb.user_question, kb.final_segments, None,
                   kb.product_filter, kb'.generation[1].extra_context))
      ]_vars

C6_Witness ==
    /\ kb.generation # None
    /\ Len(kb.keywords) = 2
    /\ kb.n_calls = 2
    /\ kb.fallbacks = 0
    /\ ~ScoreDescending(kb.generation[1].segments)

\* C7: when the keyword stage ends, the request goes to the fallback
\* retrieval exactly when no segment was accumulated; the fallback runs once,
\* from that point only, with at most 5 vector candidates for the whole
\* question, segment limit 12 and the candidates' clean names as allow-list,
\* or no allow-list when there is no candidate.
C7_FallbackExactlyWhenNothingFound ==
    [][ /\ (kb.pc \in KeywordStage /\ kb'.pc \notin KeywordStage) =>
               /\ kb'.pc \in {"fallback", "generate"}
               /\ kb'.pc = "fallback" <=> kb'.final_segments = <<>>
               /\ kb'.fallbacks = 0
        /\ kb'.fallbacks # kb.fallbacks =>
               \/ kb'.pc = "idle"
               \/ /\ kb.pc = "fallback"
                  /\ kb.final_segments = <<>>
                  /\ kb.fallbacks = 0
        /\ kb.pc = "fallback" =>
               LET call == kb'.last_call[1]
               IN  /\ kb'.fallbacks = 1
                   /\ kb'.n_calls = kb.n_calls + 1
                   /\ call.stage = "fallback"
                   /\ call.keyword = kb.user_question
                   /\ Len(call.candidates) <= 5
                   /\ call.top_segments = 12
                   /\ call.allowed_filenames =
                          IF call.candidates = <<>> THEN None
                          ELSE Some([i \in 1..Len(call.candidates) |->
                                        call.candidates[i].info.clean_name])
      ]_vars

C7_Witness ==
    /\ kb.fallbacks = 1
    /\ Len(kb.keywords) = 2
    /\ kb.n_calls = 3
    /\ kb.last_call[1].allowed_filenames # None
    /\ kb.final_segments # <<>>

\* C8: a fallback retrieval that gives no segment and no summary text ends
\* the request with the fixed message and without a generation call.
C8_NoContentStops ==
    (/\ kb.fallbacks = 1
     /\ kb.last_call[1].segments = <<>>
     /\ ~TruthyText(kb.last_call[1].summary)) =>
        /\ kb.pc = "returned"
        /\ kb.result = Some(NoContentMessage)
        /\ kb.gens = 0
        /\ kb.generation = None

C8_Witness ==
    /\ kb.pc = "returned"
    /\ Len(kb.keywords) = 2
    /\ kb.keywords[1] # kb.keywords[2]
    /\ kb.n_calls = 1
    /\ kb.fallbacks = 1
    /\ ~kb.last_call[1].failed
    /\ kb.last_call[1].summary = Some(<<>>)
    /\ kb.result = Some(NoContentMessage)

\* C9: the fixed message is returned only when the search backend answered
\* the fallback retrieval; a request whose search call failed does not end
\* with it.
C9_NoContentOnlyWhenBackendAnswered ==
    kb.result = Some(NoContentMessage) => ~kb.last_call[1].failed

\* C10: a _search_segments call whose backend call failed returns an empty
\* segment list and no summary and raises nothing: the only exception a
\* request can end with is the generation call's.
C10_SearchFailureAbsorbed ==
    /\ (kb.last_call # None /\ kb.last_call[1].failed) =>
           /\ kb.last_call[1].segments = <<>>
           /\ kb.last_call[1].summary = None
           /\ ~kb.last_call[1].raised
    /\ kb.pc = "raised" => kb.gens = 1

C10_Witness ==
    /\ kb.pc = "generate"
    /\ kb.n_calls = 2
    /\ kb.last_call # None
    /\ kb.last_call[1].failed
    /\ kb.last_call[1].stage = "keyword"
    /\ Len(kb.last_call[1].allowed_filenames[1]) = 2
    /\ kb.final_segments # <<>>

----------------------------------------------------------------------------
(* The generation call of a knowledge-base request *)

\* C11: an error of the generation call of a knowledge-base request is
\* turned into a text that query_knowledge_base returns: a request that made
\* its generation call ends by returning a text, never by raising.
C11_GenerationErrorReturned ==
    kb.generation # None => (kb.pc = "returned" /\ kb.result # None)

\* C12: when the final segment list is empty and the retrieval gave a
\* backend summary with text, the context text of the generation prompt is
\* that summary text.
C12_SummaryIsContext ==
    (kb.generation # None /\ kb.final_segments = <<>>
         /\ TruthyText(kb.summary_obj)) =>
        kb.generation[1].context_text = << kb.summary_obj[1] >>

\* C13: a request makes at most one generation call; one that ends with the
\* fixed no-content message made none; every other request that ends made
\* exactly one, whatever the number of keywords and retrievals, and the text
\* it returns is that call's response text.
C13_OneGenerationCall ==
    /\ kb.gens <= 1
    /\ kb.pc = "returned" =>
           IF kb.result = Some(NoContentMessage)
           THEN kb.gens = 0 /\ kb.response = None
           ELSE kb.gens = 1 /\ kb.response # None /\ kb.result = kb.response
    /\ kb.pc = "raised" => kb.gens = 1
    /\ kb.pc \in {"keywords", "fallback", "generate"} => kb.gens = 0

\* a request of two keywords and three retrievals returned the model's text
C13_Witness ==
    /\ kb.pc = "returned"
    /\ Len(kb.keywords) = 2
    /\ kb.n_calls = 3
    /\ kb.gens = 1
    /\ kb.result = Some(<<"gemini_apology">>)

----------------------------------------------------------------------------
(* The two lookups on their own *)

\* C14: when at least one indexed entry has similarity 0.70 or more, the
\* result of _match_filenames_by_vector is made of entries of 0.70 or more
\* only, the top_k highest of them; entries of 0.55 to 0.70 are in the
\* result only when no entry reaches 0.70, and entries below 0.55 never.
C14_HighConfidenceOnly ==
    (fn.op = "match" /\ fn.keyword # <<>> /\ fn.embedding = "ok") =>
        LET score(i) == fn.similarity[file_index[i].position]
            entries == 1..Len(file_index)
            high == { i \in entries : score(i) >= 70 }
            fair == { i \in entries : score(i) >= 55 }
            pool == IF high # {} THEN high ELSE fair
            places == 1..Len(fn.matches)
            taken(i) == \E k \in places :
                            fn.matches[k].info = file_index[i].info
        IN  /\ \A k \in places :
                   \E i \in pool :
                       /\ fn.matches[k].info = file_index[i].info
                       /\ fn.matches[k].score = score(i)
            /\ Len(fn.matches) =
                   IF Cardinality(pool) < fn.top_k THEN Cardinality(pool)
                   ELSE fn.top_k
            /\ \A i \in pool :
                   ~taken(i) => \A k \in places : fn.matches[k].score >= score(i)
            /\ \A k \in places : \A l \in places :
                   k < l => fn.matches[k].score >= fn.matches[l].score

\* of five indexed entries four reach 0.70 and one 0.55: the three of 0.90
\* are returned
C14_Witness ==
    /\ fn.op = "match"
    /\ fn.top_k = 3
    /\ Len(file_index) = 5
    /\ fn.similarity = <<70, 55, 90, 90, 90>>
    /\ Len(fn.matches) = 3
    /\ \A k \in 1..3 : fn.matches[k].score = 90

\* C15: _search_segments returns the first top_segments segments of the
\* stable sort by score descending of the segments it collected: a segment
\* is returned at the place given by the number of collected segments that
\* score higher, or the same and came earlier, and is dropped only when
\* that place is beyond the limit.
C15_StableTopSegments ==
    (fn.op = "search" /\ ~fn.response.failed) =>
        LET results == fn.response.results
            collected ==
                Flatten([i \in 1..Len(results) |->
                            DocSegments(results[i], fn.allowed_filenames)])
            n == Len(collected)
            ahead(j, i) ==
                \/ collected[j].score > collected[i].score
                \/ collected[j].score = collected[i].score /\ j < i
            place(i) == Cardinality({ j \in 1..n : ahead(j, i) }) + 1
        IN  /\ Len(fn.segments) =
                   IF n < fn.top_segments THEN n ELSE fn.top_segments
            /\ \A i \in 1..n :
                   place(i) <= fn.top_segments =>
                       fn.segments[place(i)] = collected[i]

\* of segments scored 0.9, 0.6, 0.9, 0.8 the two kept are the first and the
\* third, in that order
C15_Witness ==
    /\ fn.op = "search"
    /\ fn.top_segments = 2
    /\ fn.response.results = <<DocAb>>
    /\ fn.allowed_filenames = None
    /\ Len(fn.segments) = 2
    /\ fn.segments[1].score = 90 /\ fn.segments[1].page = Some(1)
    /\ fn.segments[2].score = 90 /\ fn.segments[2].page = Some(3)

\* the catalog file a backend document of the model is stored as, by the
\* text of its segments
SourceFile ==
    [text \in {<<"text_ab">>, <<"text_cd">>, <<"text_case">>, <<"text_nolink">>} |->
        IF text = <<"text_ab">> THEN Some(<<"a", "b", "-", "x">>)
        ELSE IF text = <<"text_cd">> THEN Some(<<"c", "d">>)
        ELSE IF text = <<"text_case">> THEN Some(<<"A", "b", "-", "x">>)
        ELSE None]

\* C16: with a non-empty allow-list, every segment _search_segments returns
\* comes from a document whose file name is an element of the list, letter
\* case included; a document without storage link gives no segment.
C16_AllowListExact ==
    (fn.op = "search" /\ fn.allowed_filenames # None
         /\ fn.allowed_filenames[1] # <<>>) =>
        \A k \in 1..Len(fn.segments) :
            LET file == SourceFile[fn.segments[k].text]
            IN  /\ file # None
                /\ \E i \in 1..Len(fn.allowed_filenames[1]) :
                       fn.allowed_filenames[1][i] = file[1]

\* the backend returned the document "Ab-x" before "ab-x" and the list
\* allows "ab-x": only the segments of "ab-x" are returned
C16_Witness ==
    /\ fn.op = "search"
    /\ fn.allowed_filenames = Some(<< <<"a", "b", "-", "x">> >>)
    /\ fn.response.results = <<DocCase, DocAb>>
    /\ fn.top_segments = TOTAL_SEGMENT_TARGET
    /\ Len(fn.segments) = 4
    /\ \A k \in 1..4 : fn.segments[k].text = <<"text_ab">>

----------------------------------------------------------------------------
(* File resolution in the keyword loop *)

\* the clean names of the candidates whose coverage of the keyword reaches
\* the threshold: 0.5 for a vector score of 0.7 or more, otherwise 1.0 for a
\* keyword of fewer than 3 distinct characters and 0.6 for a longer one;
\* characters are compared as they are, or after lower-casing when `folded`
CoverageValidated(kw, found, folded) ==
    LET chars(s) == { (IF folded THEN LowerChar(s[i]) ELSE s[i]) : i \in 1..Len(s) }
        kw_chars == chars(kw)
        tenths(m) == IF m.score >= 70 THEN 5
                     ELSE IF Cardinality(kw_chars) < 3 THEN 10 ELSE 6
        validated(m) ==
            Cardinality(kw_chars \cap chars(m.info.clean_name)) * 10
                >= tenths(m) * Cardinality(kw_chars)
    IN  { found[k].info.clean_name :
              k \in { k \in 1..Len(found) : validated(found[k]) } }

\* what a turn of the keyword loop does when `names` are the validated
\* candidates: no retrieval without a name, else one retrieval whose
\* allow-list is the names
KeywordTurn(names) ==
    IF names = {}
    THEN kb'.n_calls = kb.n_calls /\ kb'.last_call = kb.last_call
    ELSE /\ kb'.n_calls = kb.n_calls + 1
         /\ kb'.last_call[1].stage = "keyword"
         /\ kb'.last_call[1].keyword = kb.keywords[kb.i]
         /\ kb'.last_call[1].allowed_filenames # None
         /\ LET allowed == kb'.last_call[1].allowed_filenames[1]
            IN  { allowed[k] : k \in 1..Len(allowed) } = names

\* C17 as stated: the allow-list of a keyword's retrieval is the set of its
\* top-3 vector candidates whose coverage, counted on the characters as
\* written, reaches the threshold; without such a candidate there is no
\* retrieval.
C17_AllowListByCoverage ==
    [][ kb.pc = "keywords" =>
            /\ Len(kb'.found[1]) <= 3
            /\ KeywordTurn(CoverageValidated(kb.keywords[kb.i], kb'.found[1],
                                             FALSE)) ]_vars

\* C17 amended: the same with the keyword and the clean name lower-cased
\* before the characters are counted and compared.
C17_AllowListByFoldedCoverage ==
    [][ kb.pc = "keywords" =>
            /\ Len(kb'.found[1]) <= 3
            /\ KeywordTurn(CoverageValidated(kb.keywords[kb.i], kb'.found[1],
                                             TRUE)) ]_vars

\* keyword "Ab" had the candidates "ab-x" and "cd", both at 0.55: "ab-x"
\* covers it when case is folded, "cd" does not
C17_Witness ==
    /\ kb.found # None
    /\ Len(kb.found[1]) = 2
    /\ \A k \in 1..2 : kb.found[1][k].score = 55
    /\ kb.last_call # None
    /\ kb.last_call[1].stage = "keyword"
    /\ kb.last_call[1].keyword = <<"A", "b">>
    /\ kb.last_call[1].candidates = kb.found[1]
    /\ kb.last_call[1].allowed_filenames = Some(<< <<"a", "b", "-", "x">> >>)

\* the turn of the keyword loop of a one-keyword filter in which the keyword
\* resolved to exactly one catalog entry
SingleProductTurn ==
    /\ kb.pc = "keywords"
    /\ Len(kb.keywords) = 1
    /\ kb'.n_calls = 1
    /\ Len(kb'.last_call[1].allowed_filenames[1]) = 1

\* the retrieval of a single-product turn: the one entry as allow-list and
\* the whole target as segment limit
SingleProductCall ==
    /\ kb'.last_call[1].stage = "keyword"
    /\ kb'.last_call[1].top_segments = 12
    /\ \E k \in 1..Len(kb'.found[1]) :
           kb'.last_call[1].allowed_filenames =
               Some(<< kb'.found[1][k].info.clean_name >>)
    /\ \E p \in 1..Len(product_files) :
           kb'.last_call[1].allowed_filenames =
               Some(<< product_files[p].clean_name >>)

\* the generation call of a one-keyword request carries the filter as scope
\* restriction
SingleProductScope ==
    (kb.pc = "generate" /\ Len(kb.keywords) = 1) =>
        /\ kb.product_filter # None
        /\ kb'.generation[1].scope = kb.product_filter

\* C18 as stated: when the filter has one keyword and the keyword resolves to
\* one catalog entry, the retrieval with that entry as allow-list and limit
\* 12 is the only retrieval of the request, and the prompt carries the scope
\* restriction.
C18_SingleProductOneRetrieval ==
    [][ /\ SingleProductTurn =>
               /\ SingleProductCall
               /\ kb'.pc = "generate"
        /\ SingleProductScope ]_vars

\* C18 amended: that retrieval is the only one when it returns a segment;
\* when it returns none the request goes on to the fallback retrieval.
C18_SingleProductRetrieval ==
    [][ /\ SingleProductTurn =>
               /\ SingleProductCall
               /\ kb'.pc = (IF kb'.last_call[1].segments # <<>>
                            THEN "generate" ELSE "fallback")
               /\ kb'.final_segments = kb'.last_call[1].segments
        /\ (kb.pc = "generate" /\ Len(kb.keywords) = 1 /\ kb.fallbacks = 0) =>
               kb.n_calls = 1
        /\ SingleProductScope ]_vars

\* a one-keyword request resolved to "ab-x" made its one retrieval and its
\* generation call, with the filter as scope
C18_Witness ==
    /\ kb.generation # None
    /\ Len(kb.keywords) = 1
    /\ kb.n_calls = 1
    /\ kb.fallbacks = 0
    /\ kb.last_call[1].allowed_filenames = Some(<< <<"a", "b", "-", "x">> >>)
    /\ kb.last_call[1].top_segments = 12
    /\ kb.generation[1].scope = kb.product_filter
    /\ kb.product_filter # None

\* C19: the segment list handed to the generator holds no passage twice: no
\* two of its segments have the same text, source document and page.
C19_NoDuplicatePassage ==
    kb.generation # None =>
        LET segments == kb.generation[1].segments
        IN  \A i \in 1..Len(segments) : \A j \in 1..Len(segments) :
                (/\ segments[i].text = segments[j].text
                 /\ segments[i].source_title = segments[j].source_title
                 /\ segments[i].page = segments[j].page) => i = j

\* the catalog names the category-prefix rule matches to a keyword: those
\* whose token before the first hyphen has two characters or more and is
\* part of the keyword as written
CategoryHits(keyword) ==
    { product_files[p].clean_name :
          p \in { p \in 1..Len(product_files) :
                     LET name == product_files[p].clean_name
                         hyphen == FirstIndexOf(name, "-")
                     IN  /\ hyphen >= 3
                         /\ IsSubstring(SubSeq(name, 1, hyphen - 1), keyword) } }

\* C20: a keyword with category-prefix hits is resolved to those hits
\* outright, whatever vector matching gives, and one without them to its
\* validated vector candidates.
C20_CategoryMatchFirst ==
    [][ kb.pc = "keywords" =>
            IF CategoryHits(kb.keywords[kb.i]) # {}
            THEN KeywordTurn(CategoryHits(kb.keywords[kb.i]))
            ELSE KeywordTurn(CoverageValidated(kb.keywords[kb.i],
                                               kb'.found[1], TRUE)) ]_vars

----------------------------------------------------------------------------
(* The catalog *)

\* C21: when listing the bucket failed the catalog and the index are empty,
\* and every request still runs: vector matching names no file for any
\* keyword or for the question, the one retrieval made is the fallback
\* retrieval without allow-list, and nothing raises before the generation
\* call.
C21_ListingFailureUnscoped ==
    product_files = <<>> =>
        /\ file_index = <<>>
        /\ kb.found \in {None, Some(<<>>)}
        /\ kb.display_names_all = <<>>
        /\ kb.last_call # None =>
               /\ kb.last_call[1].stage = "fallback"
               /\ kb.last_call[1].candidates = <<>>
               /\ kb.last_call[1].allowed_filenames = None
        /\ kb.pc \in {"generate", "returned", "raised"} =>
               /\ kb.n_calls = 1
               /\ kb.fallbacks = 1
        /\ kb.pc = "raised" => kb.gens = 1

\* without catalog a request with a filter of two keywords was answered from
\* the segments of the unscoped retrieval
C21_Witness ==
    /\ product_files = <<>>
    /\ kb.pc = "returned"
    /\ Len(kb.keywords) = 2
    /\ kb.last_call[1].allowed_filenames = None
    /\ kb.last_call[1].segments # <<>>
    /\ kb.gens = 1
    /\ kb.result = kb.response

\* C22: no call of _match_filenames_by_vector or _search_segments changes the
\* catalog or the index: entries and order stay as construction left them.
C22_CatalogFrozen ==
    [][product_files' = product_files /\ file_index' = file_index]_vars

\* a vector match ranked the last entry of the index first, and the index is
\* still in catalog order
C22_Witness ==
    /\ fn.op = "match"
    /\ Len(fn.matches) >= 2
    /\ Len(file_index) >= 4
    /\ fn.matches[1].info = file_index[Len(file_index)].info
    /\ \A i \in 1..(Len(file_index) - 1) :
           file_index[i].position < file_index[i + 1].position
    /\ \A i \in 1..Len(file_index) :
           file_index[i].info = product_files[file_index[i].position]

----------------------------------------------------------------------------
(* /ask *)

\* the workspace pages whose title contains the name
TitleMatches(name) == { i \in 1..Len(Pages) : IsSubstring(name, Pages[i].title) }

\* C23: an /ask whose customer name matches no page or several pages makes
\* one lookup, replies once, with the not-found message or with the list of
\* the matching titles, creates no session and makes no generation call.
C23_NoSessionWithoutUniqueHit ==
    ( /\ h.cmd = "ask" /\ h.pc \in {"done", "crashed"}
      /\ h.lookups >= 1
      /\ h.replies # << <<"notion_error">> >>
      /\ Cardinality(TitleMatches(h.args[1])) # 1 )
    => /\ redis[h.chat] = None
       /\ h.sets = 0 /\ h.dels = 0
       /\ h.gens = 0
       /\ h.lookups = 1
       /\ Len(h.replies) = 1
       /\ IF TitleMatches(h.args[1]) = {}
          THEN h.replies[1] = <<"not_found">> \o h.args[1]
          ELSE /\ h.replies[1][1] = "ambiguous"
               /\ Len(h.replies[1][2]) = Cardinality(TitleMatches(h.args[1]))
               /\ { h.replies[1][2][k] : k \in 1..Len(h.replies[1][2]) }
                    = { Pages[i].title : i \in TitleMatches(h.args[1]) }

\* an /ask with a question named two pages and was answered with their titles
C23_Witness ==
    /\ h.cmd = "ask" /\ h.pc = "done"
    /\ Len(h.args) = 2
    /\ Cardinality(TitleMatches(h.args[1])) = 2
    /\ h.replies # <<>>
    /\ h.replies[1][1] = "ambiguous"
    /\ redis[h.chat] = None

----------------------------------------------------------------------------
(* Segment scores *)

\* the score the backend supplied with a segment: score, else confidenceScore
SuppliedScore(seg) == IF seg.score # None THEN seg.score ELSE seg.confidenceScore

\* C24: every segment _search_segments returns carries the score the backend
\* supplied with it, a supplied 0 included, and 1.0 when it supplied none.
C24_ScoreAsSupplied ==
    fn.op = "search" =>
        \A k \in 1..Len(fn.segments) :
            \E d \in 1..Len(fn.response.results) :
                \E j \in 1..Len(fn.response.results[d].extractive_segments) :
                    LET seg == fn.response.results[d].extractive_segments[j]
                    IN  /\ seg.content = fn.segments[k].text
                        /\ seg.pageNumber = fn.segments[k].page
                        /\ fn.segments[k].score =
                               IF SuppliedScore(seg) # None
                               THEN SuppliedScore(seg)[1] ELSE 100

----------------------------------------------------------------------------
(* Compaction *)

\* C25: when /query or /products completes on a session whose history was H,
\* the stored history is the entries of H before its last assistant entry
\* followed by one assistant entry holding the rolling summary (the summary
\* alone when H has no assistant entry); title, page id and portrait are
\* those the session had.
C25_CompactionKeepsPrefix ==
    ( /\ h.cmd \in {"query", "products"} /\ h.pc = "done" /\ h.sets = 1 )
    => /\ h.pre # None /\ redis[h.chat] # None
       /\ LET H == h.pre[1].history
              new == redis[h.chat][1].history
              assistants == { k \in 1..Len(H) : H[k].role = "assistant" }
          IN  \E n \in 0..Len(H) :
                  /\ \/ assistants = {} /\ n = 0
                     \/ /\ n + 1 \in assistants
                        /\ \A k \in assistants : k <= n + 1
                  /\ Len(new) = n + 1
                  /\ \A k \in 1..n : new[k] = H[k]
                  /\ new[n + 1] = Entry("assistant", summarize_segment)
       /\ redis[h.chat][1].customer_title = h.pre[1].customer_title
       /\ redis[h.chat][1].page_id = h.pre[1].page_id
       /\ redis[h.chat][1].portrait = h.pre[1].portrait

\* /products completed on a history of three entries whose second is the
\* last assistant entry: the first entry is kept before the summary
C25_Witness ==
    /\ h.cmd = "products" /\ h.pc = "done" /\ h.sets = 1
    /\ Len(h.pre[1].history) = 3
    /\ h.pre[1].history[2].role = "assistant"
    /\ h.pre[1].history[3].role = "discussion"
    /\ Len(redis[h.chat][1].history) = 2
    /\ redis[h.chat][1].history[1] = h.pre[1].history[1]

\* C26: once an /ask whose customer name matches exactly one page, given with
\* or without a question, has fetched the portrait and ended, the session
\* holds that page's title, id and portrait, its history is one user entry
\* followed by one assistant entry holding the answer, and the handler's last
\* reply is the answer.
C26_AskOpensAnsweredSession ==
    ( /\ h.cmd = "ask" /\ h.pc \in {"done", "crashed"}
      /\ h.sets >= 1
      /\ Cardinality(TitleMatches(h.args[1])) = 1 )
    => /\ h.pc = "done"
       /\ redis[h.chat] # None
       /\ \E i \in TitleMatches(h.args[1]) :
              /\ redis[h.chat][1].customer_title = Pages[i].title
              /\ redis[h.chat][1].page_id = Pages[i].id
              /\ redis[h.chat][1].portrait = get_page_portrait_section(Pages[i].id)
       /\ Len(redis[h.chat][1].history) = 2
       /\ redis[h.chat][1].history[1].role = "user"
       /\ redis[h.chat][1].history[2] = Entry("assistant", answer_question)
       /\ h.replies # <<>>
       /\ h.replies[Len(h.replies)][1] = "ask_answer"

----------------------------------------------------------------------------
(* The summary waiting to be saved *)

\* the session of chat c in store r is waiting for /save with a summary
AwaitingSave(r, c) ==
    /\ r[c] # None
    /\ r[c][1].awaiting_save
    /\ r[c][1].pending_summary # None

\* C27: once awaiting_save and a pending summary are stored, every step
\* leaves both in the session, except the /cancel or the successful /save
\* that removes the session.
C27_PendingSummaryStays ==
    [][ \A c \in ChatIds :
            AwaitingSave(redis, c) =>
                \/ AwaitingSave(redis', c)
                \/ /\ redis'[c] = None
                   /\ h'.chat = c
                   /\ \/ h'.cmd = "cancel"
                      \/ h'.cmd = "save" /\ h'.appended # None ]_vars

\* C28: a conversation without stored session gets one only from an /ask
\* that found its page: after /cancel or a successful /save has deleted the
\* session, neither a handler nor a summary task writes it back.
C28_DeletedStaysDeleted ==
    [][ \A c \in ChatIds :
            (redis[c] = None /\ redis'[c] # None) =>
                /\ h.cmd = "ask" /\ h.pc = "await_hits" /\ h.chat = c
                /\ h'.sets = 1
                /\ redis'[c][1].history = <<>>
                /\ ~redis'[c][1].awaiting_save ]_vars

\* a summary task began, /cancel deleted its session, and the task ended
\* without writing
C28_Witness ==
    /\ finished # None
    /\ finished[1].cancelled
    /\ ~finished[1].wrote
    /\ redis[finished[1].chat] = None

FailureText == summarize_conversation(<<>>, "error")

\* C30: when the generation call of the summary fails, the failure text is
\* not stored as pending summary, is not sent as a draft, and is not appended
\* to a page by /save, as it is or refined.
C30_FailureNotStored ==
    /\ \A c \in ChatIds :
           redis[c] # None => redis[c][1].pending_summary # Some(FailureText)
    /\ finished # None => finished[1].sent # <<"draft">> \o FailureText
    /\ h.appended # None =>
           h.appended[1].summary \notin {FailureText, refine_summary(FailureText)}

----------------------------------------------------------------------------
(* /save and plain messages *)

\* C31: a /save that finds no session, or a session without awaiting_save,
\* answers that there is nothing to save, writes nothing to the workspace
\* and leaves the session store as it was; a workspace append is made only
\* by a /save that found a session with awaiting_save set.
C31_SaveOnlyWhenAwaiting ==
    [][ /\ ( /\ Dispatched("save")
             /\ \/ redis[h'.chat] = None
                \/ ~redis[h'.chat][1].awaiting_save )
           => /\ h'.pc = "done"
              /\ h'.replies = << <<"nothing_to_save">> >>
              /\ h'.appended = None
              /\ h'.sets = 0 /\ h'.dels = 0
              /\ redis' = redis
        /\ (h.appended = None /\ h'.appended # None)
           => /\ h'.cmd = "save"
              /\ h'.pre # None
              /\ h'.pre[1].awaiting_save
              /\ h'.appended[1].page_id = h'.pre[1].page_id ]_vars

\* a /save on a session that is not waiting to be saved was refused and the
\* session is as it was
C31_Witness ==
    /\ h.cmd = "save" /\ h.pc = "done"
    /\ h.pre # None /\ ~h.pre[1].awaiting_save
    /\ h.pre[1].history # <<>>
    /\ h.replies = << <<"nothing_to_save">> >>
    /\ redis[h.chat] = h.pre

\* C32: when the workspace append of /save was made the session is deleted;
\* when it was not, the session is left as it was, still waiting to be saved
\* with its pending summary.
C32_SaveDeletesAfterAppend ==
    [][ (h.cmd = "save" /\ h.pc = "await_append" /\ h'.pc = "done") =>
            IF h'.appended # None
            THEN redis'[h.chat] = None
            ELSE /\ redis' = redis
                 /\ AwaitingSave(redis', h.chat) ]_vars

\* C33: a plain message changes nothing when no session is stored; on a
\* session waiting to be saved it replaces pending_summary by the refinement
\* of the summary it found and changes no other field; on any other session
\* it appends one discussion entry to the end of history and changes no
\* other field.
C33_MessageFrame ==
    [][ /\ (Dispatched("message") /\ redis[h'.chat] = None)
           => /\ redis' = redis
              /\ h'.pc = "done" /\ h'.replies = <<>>
              /\ h'.sets = 0 /\ h'.gens = 0
        /\ (Dispatched("message") /\ redis[h'.chat] # None)
           => IF redis[h'.chat][1].awaiting_save
              THEN redis' = redis /\ h'.pc = "await_refine"
              ELSE /\ h'.pc = "done"
                   /\ redis' = [redis EXCEPT ![h'.chat] =
                         Some([redis[h'.chat][1] EXCEPT !.history =
                                  Append(@, Entry("discussion", h'.args[1]))])]
        /\ (h.cmd = "message" /\ h.pc = "await_refine" /\ h'.pc # "await_refine")
           => /\ h'.pc = "done"
              /\ redis[h.chat] # None
              /\ redis' = [redis EXCEPT ![h.chat] =
                    Some([redis[h.chat][1] EXCEPT !.pending_summary =
                             Some(refine_summary(h.pre[1].pending_summary[1]))])]
       ]_vars

\* a message revised the summary of a session that has a history, and the
\* history is the one the message found
C33_Witness ==
    /\ h.cmd = "message" /\ h.pc = "done" /\ h.sets = 1
    /\ h.pre # None /\ h.pre[1].awaiting_save
    /\ Len(h.pre[1].history) >= 2
    /\ redis[h.chat] # None
    /\ redis[h.chat][1].history = h.pre[1].history
    /\ redis[h.chat][1].pending_summary # h.pre[1].pending_summary
    /\ redis[h.chat][1].awaiting_save

\* C34: /search_db makes no call to the session store and leaves the stored
\* session of every conversation, or its absence, as it was, whether the
\* knowledge-base request answers, finds nothing or raises.
C34_SearchDbLeavesSessions ==
    [][ Dispatched("search_db") =>
            /\ redis' = redis
            /\ h'.pc \in {"done", "crashed"}
            /\ h'.gets = 0 /\ h'.sets = 0 /\ h'.dels = 0 ]_vars

\* /search_db was answered from the knowledge base while a session with a
\* history was stored, and the session is as it was
C34_Witness ==
    /\ h.cmd = "search_db" /\ h.pc = "done"
    /\ h.replies # <<>>
    /\ h.replies[Len(h.replies)] = KbText("answer")
    /\ h.pre # None
    /\ Len(h.pre[1].history) >= 2
    /\ redis[h.chat] = h.pre

----------------------------------------------------------------------------
(* The segment budget *)

\* C35: whatever the number of keywords in the filter and whatever the
\* backend returns, the generation call receives at most
\* TOTAL_SEGMENT_TARGET segments.
C35_SegmentBudget ==
    /\ kb.pc = "generate" => Len(kb.final_segments) <= TOTAL_SEGMENT_TARGET
    /\ kb.generation # None =>
           Len(kb.generation[1].segments) <= TOTAL_SEGMENT_TARGET

\* C35, amended: the generation call receives at most TOTAL_SEGMENT_TARGET
\* segments when the filter has at most that many keywords, and at most one
\* segment per keyword when it has more.
C35_SegmentBudgetPerKeyword ==
    \A n \in {Len(kb.keywords)} :
        \A limit \in {IF n <= TOTAL_SEGMENT_TARGET THEN TOTAL_SEGMENT_TARGET ELSE n} :
            /\ kb.pc = "generate" => Len(kb.final_segments) <= limit
            /\ kb.generation # None => Len(kb.generation[1].segments) <= limit

\* two keywords filled the whole budget, six segments each
C35_Witness ==
    /\ kb.pc = "generate"
    /\ Len(kb.keywords) = 2
    /\ kb.n_calls = 2
    /\ Len(kb.final_segments) = TOTAL_SEGMENT_TARGET

----------------------------------------------------------------------------
(* The summary draft *)

\* C36: in every stored session awaiting_save comes with a pending summary,
\* and the pending summary of a session changes only in a step of the
\* summary task or of a refinement begun while awaiting_save was set.
C36_PendingSummaryWriters ==
    [][ \A c \in ChatIds :
            /\ (redis'[c] # None /\ redis'[c][1].awaiting_save)
                   => redis'[c][1].pending_summary # None
            /\ ( /\ redis[c] # None /\ redis'[c] # None
                 /\ redis'[c][1].pending_summary # redis[c][1].pending_summary )
                   => \/ tasks' # tasks
                      \/ /\ h.cmd = "message" /\ h.pc = "await_refine"
                         /\ h.chat = c
                         /\ h.pre # None /\ h.pre[1].awaiting_save ]_vars

\* the summary task that ended in the last step stored its summary in the
\* session, which is waiting to be saved with it
DraftStored ==
    /\ finished # None
    /\ finished[1].wrote
    /\ AwaitingSave(redis, finished[1].chat)

----------------------------------------------------------------------------
(* The session store failing under /ask *)

\* C38: the state-creating step of /ask never replaces a session that is in
\* the store, also when the store failed to answer the existence check.
C38_AskNeverOverwrites ==
    [][ ( /\ h.cmd = "ask" /\ h.pc = "await_hits"
          /\ h'.pc # "await_hits"
          /\ redis[h.chat] # None )
        => redis' = redis ]_vars

====
